---- MODULE Spec2Model ----
(***************************************************************************)
(* Mobilytix acquisition core (src/modules/adb_utils.py): the shell        *)
(* transport, the content provider query fallback engine, the brute-force  *)
(* remote filesystem scan, the extraction manifest builder, the full       *)
(* extraction orchestration and the BIN archive writer; the worker         *)
(* threads of the GUI (src/gui.py, src/modules/workers.py); the session    *)
(* log (src/modules/session_manager.py); and the parsers of the content    *)
(* provider output (src/modules/parsers.py).                               *)
(*                                                                         *)
(* The specifications share the variables of this module; each drives one  *)
(* subsystem and leaves the variables of the others at rest:               *)
(*   SpecQuery    query_content_provider_with_fallbacks                    *)
(*   SpecExtract  brute_scan_fs, brute_extract_folder,                     *)
(*                pull_folder_with_metadata                                *)
(*   SpecArchive  archive_to_bin and a reader of the container             *)
(*   SpecFull     perform_full_extraction                                  *)
(*   SpecRunAdb   run_adb                                                  *)
(*   SpecGui      run_plain / run_with_callback and Worker.run             *)
(*   SpecSession  SessionManager.start_session and log_operation           *)
(*   SpecEpoch    epoch_ms_to_str and the date fields of a parsed record   *)
(*   SpecParse    parse_sms_text, parse_contacts_text, parse_calls_text    *)
(***************************************************************************)
EXTENDS Integers, Sequences, FiniteSets, TLC

VARIABLES
    \* ---- query_content_provider_with_fallbacks -------------------------
    uri_variants,          \* argument: ordered list of URIs
    projection_variants,   \* argument: ordered list of projections
    label,                 \* argument: label used in the diagnostic
    qpc,                   \* "idle" | "loop" | "done"
    ui,                    \* position of the outer loop (1-based)
    pj,                    \* position of the inner loop (1-based)
    result,                \* local `result`: text of the last run_adb call
    attempts,              \* transport calls made so far, in order, each with
                           \* the engine's verdict (success) and with how the
                           \* stub built its answer (bad: empty or a marker)
    stub,                  \* what the stub transport answered last
    qret,                  \* the returned 4-tuple, None until the return
    \* ---- brute_scan_fs / brute_extract_folder / pull_folder ------------
    device,                \* the simulated remote tree
    op,                    \* "brute" | "folder": which extraction runs
    pc,                    \* position of the extraction
    stack,                 \* brute_scan_fs: work stack of paths
    visited,               \* brute_scan_fs: set of visited paths
    discovered,            \* brute_scan_fs: list of {path, is_dir}
    current,               \* brute_scan_fs: path being listed
    entries,               \* names still to be handled in the for loop
    calls,                 \* shell calls issued, in order
    skipped,               \* pops that found the path already visited
    localfs,               \* local filesystem under dest_root
    manifest,              \* manifest being built
    observed,              \* local state seen right after each pull
    pullFailures,          \* pulls that left no complete file so far
    fidx,                  \* brute_extract_folder: index into fs_items
    ret,                   \* value returned by the extraction, None before
    \* ---- archive_to_bin ------------------------------------------------
    amanifest,             \* argument: the manifest to serialize
    afs,                   \* local filesystem read by the writer
    apc,                   \* "idle" | "open" | "entries" | "done"
    aidx,                  \* index of the next manifest entry to write
    out,                   \* bytes of output_bin written so far
    written,               \* bytes written for each entry handled
    aret,                  \* returned string, None until the return
    aerr,                  \* the exception caught by archive_to_bin, if any
    tampered,              \* local files changed since the extraction
    \* ---- perform_full_extraction ----------------------------------------
    fpc,                   \* "idle" | "run" | "done"
    fstep,                 \* position: 1..8 the public folders, 9..11 the
                           \* dumps, 12 backup, 13 brute scan, 14 local scan
    fmanifest,             \* local `manifest`
    flog,                  \* what each source attempted so far did
    ffails,                \* sources that did not succeed so far
    fret,                  \* returned value, None until the return
    \* ---- run_adb ---------------------------------------------------------
    rargs,                 \* argument: the adb arguments
    rpc,                   \* "idle" | "call" | "wait" | "ended" | "done"
    rproc,                 \* how subprocess.run ended
    spawned,               \* times this call has started an external process
    rret,                  \* what the call returned, if it has
    \* ---- MobilytixGUI.run_plain / run_with_callback, Worker --------------
    gworkers,              \* self.workers: the Worker objects kept alive
    wstate,                \* each Worker: where its thread is, the operation
                           \* it runs, the run_adb calls that are left, the
                           \* result it emitted and how often
    inflight,              \* Workers whose adb process is running
    last_manifest,         \* self._last_manifest
    \* ---- SessionManager --------------------------------------------------
    sdisk,                 \* session_metadata.json of each session directory
    current_session,       \* self.current_session (its metadata in memory)
    operation_counter,     \* self.operation_counter
    lthreads,              \* each Worker thread inside log_operation: where
                           \* it is and the operation id it was given
    slogged,               \* log_operation calls made so far
    \* ---- parse_sms_text / parse_contacts_text / parse_calls_text ---------
    parser,                \* which parser is called
    raw_text,              \* argument: the text to parse
    ppc,                   \* "idle" | "start" | "strategy" | "done"
    pstage,                \* the strategy (and pattern) that is next
    ptext,                 \* local `text`: the lines the strategies see
    presults,              \* local `results`
    pret,                  \* returned list, once returned
    \* ---- epoch_ms_to_str --------------------------------------------------
    einput,                \* the argument and how the model built it
    eraw,                  \* argument as passed
    ems,                   \* local `ms`
    epc,                   \* "idle" | "record" | "convert" | "format" |
                           \* "returned" | "done"
    eret,                  \* returned string, once returned
    erecord                \* date fields of the record a parser builds

queryVars   == <<uri_variants, projection_variants, label, qpc, ui, pj,
                 result, attempts, stub, qret>>
extractVars == <<device, op, pc, stack, visited, discovered, current,
                 entries, calls, skipped, localfs, manifest, observed,
                 pullFailures, fidx, ret>>
archiveVars == <<amanifest, afs, apc, aidx, out, written, aret, aerr, tampered>>
fullVars    == <<fpc, fstep, fmanifest, flog, ffails, fret>>
adbVars     == <<rargs, rpc, rproc, spawned, rret>>
guiVars     == <<gworkers, wstate, inflight, last_manifest>>
sessionVars == <<sdisk, current_session, operation_counter, lthreads, slogged>>
parseVars   == <<parser, raw_text, ppc, pstage, ptext, presults, pret>>
epochVars   == <<einput, eraw, ems, epc, eret, erecord>>
vars        == <<queryVars, extractVars, archiveVars, fullVars, adbVars, guiVars,
                 sessionVars, parseVars, epochVars>>

\* Python's None.
None == "<None>"

(***************************************************************************)
(* Text.  A text is a sequence of one-character strings, so that           *)
(* str.lower() and the substring test `err in text` are computed           *)
(* character by character.                                                 *)
(***************************************************************************)
UpperChars ==
    <<"A", "B", "C", "D", "E", "F", "G", "H", "I", "J", "K", "L", "M",
      "N", "O", "P", "Q", "R", "S", "T", "U", "V", "W", "X", "Y", "Z">>
LowerChars ==
    <<"a", "b", "c", "d", "e", "f", "g", "h", "i", "j", "k", "l", "m",
      "n", "o", "p", "q", "r", "s", "t", "u", "v", "w", "x", "y", "z">>

LowerChar(c) ==
    IF \E k \in 1..Len(UpperChars) : UpperChars[k] = c
    THEN LowerChars[CHOOSE k \in 1..Len(UpperChars) : UpperChars[k] = c]
    ELSE c
UpperChar(c) ==
    IF \E k \in 1..Len(LowerChars) : LowerChars[k] = c
    THEN UpperChars[CHOOSE k \in 1..Len(LowerChars) : LowerChars[k] = c]
    ELSE c

\* str.lower()
Lower(text) == [k \in 1..Len(text) |-> LowerChar(text[k])]
\* str.upper() and str.capitalize(), used to build the stub's answers
Upper(text) == [k \in 1..Len(text) |-> UpperChar(text[k])]
Capitalize(text) ==
    [k \in 1..Len(text) |-> IF k = 1 THEN UpperChar(text[k]) ELSE text[k]]

\* `needle in text` on Python strings
Contains(text, needle) ==
    \E k \in 0..(Len(text) - Len(needle)) :
        SubSeq(text, k + 1, k + Len(needle)) = needle

\* the three strings run_adb returns when subprocess.run raises
TimedOutText == <<"a", "d", "b", " ", "c", "o", "m", "m", "a", "n", "d", " ", "t", "i", "m", "e", "d", " ", "o", "u", "t", ".">>
NotFoundText == <<"a", "d", "b", " ", "n", "o", "t", " ", "f", "o", "u", "n", "d", ".">>
AdbErrorPrefix == <<"a", "d", "b", " ", "e", "r", "r", "o", "r", ":", " ">>

\* str(e) of an exception that is neither TimeoutExpired nor FileNotFoundError
ExceptionTexts ==
    { <<"[", "E", "r", "r", "n", "o", " ", "1", "3", "]", " ", "P", "e", "r", "m", "i", "s", "s", "i", "o", "n", " ", "d", "e", "n", "i", "e", "d">>,
      <<>> }

(***************************************************************************)
(* Query fallback engine                                                   *)
(***************************************************************************)
\* the marker list of query_content_provider_with_fallbacks
ErrorMarkers ==
    << <<"e", "r", "r", "o", "r">>,
       <<"e", "x", "c", "e", "p", "t", "i", "o", "n">>,
       <<"d", "e", "n", "i", "e", "d">>,
       <<"f", "a", "i", "l", "e", "d">>,
       <<"u", "n", "k", "n", "o", "w", "n">>,
       <<"n", "o", " ", "s", "u", "c", "h">>,
       <<"u", "n", "a", "b", "l", "e">>,
       <<"c", "a", "n", "n", "o", "t">>,
       <<"n", "o", "t", " ", "f", "o", "u", "n", "d">> >>

\* Faulty variant of IsSuccess: the text is not lower-cased before the marker test.
IsSuccessCaseSensitive(text) ==
    /\ text # <<>>
    /\ ~ \E m \in 1..Len(ErrorMarkers) : Contains(text, ErrorMarkers[m])

\* `result and not any(err in result.lower() for err in [...])`
IsSuccess(text) ==
    /\ text # <<>>
    /\ ~ \E m \in 1..Len(ErrorMarkers) : Contains(Lower(text), ErrorMarkers[m])

\* Answers of the stub transport.  An answer is pre \o body \o post; `marker`
\* records how the answer was built: TRUE when body is one of the nine
\* markers the specification names (NamedMarkers), in lower, upper or
\* capitalized form.  Bodies built without a marker are near misses of the
\* markers, or empty.
Pres  == { <<>>, <<"R", "o", "w", ":", " ", "0", " ", "b", "o", "d", "y", "=">> }
Posts == { <<>>, <<" ", "o", "k">> }
NamedMarkers ==
    { <<"e", "r", "r", "o", "r">>,
      <<"e", "x", "c", "e", "p", "t", "i", "o", "n">>,
      <<"d", "e", "n", "i", "e", "d">>,
      <<"f", "a", "i", "l", "e", "d">>,
      <<"u", "n", "k", "n", "o", "w", "n">>,
      <<"n", "o", " ", "s", "u", "c", "h">>,
      <<"u", "n", "a", "b", "l", "e">>,
      <<"c", "a", "n", "n", "o", "t">>,
      <<"n", "o", "t", " ", "f", "o", "u", "n", "d">> }
MarkerForms == UNION { { m, Upper(m), Capitalize(m) } : m \in NamedMarkers }
NearMisses ==
    { <<"e", "r", "o", "r">>,
      <<"d", "e", "n", " ", "i", "e", "d">>,
      <<"n", "o", "s", "u", "c", "h">>,
      <<"n", "o", "t", "f", "o", "u", "n", "d">>,
      <<"c", "a", "n", " ", "n", "o", "t">> }
\* What run_adb hands to the engine when the transport call itself failed:
\* the three except branches of run_adb, split around the marker they hold.
TransportFailures ==
    { [pre |-> TimedOutText, body |-> <<>>, post |-> <<>>, marker |-> FALSE,
       transport |-> TRUE],
      [pre |-> <<"a", "d", "b", " ">>, body |-> <<"n", "o", "t", " ", "f", "o", "u", "n", "d">>,
       post |-> <<".">>, marker |-> TRUE, transport |-> TRUE] }
    \cup
    { [pre |-> <<"a", "d", "b", " ">>, body |-> <<"e", "r", "r", "o", "r">>,
       post |-> <<":", " ">> \o t, marker |-> TRUE, transport |-> TRUE] :
        t \in ExceptionTexts }
StubAnswers ==
    { [pre |-> p, body |-> b, post |-> q, marker |-> TRUE, transport |-> FALSE] :
        p \in Pres, b \in MarkerForms, q \in Posts }
    \cup
    { [pre |-> p, body |-> b, post |-> q, marker |-> FALSE, transport |-> FALSE] :
        p \in Pres, b \in NearMisses \cup {<<>>}, q \in Posts }
    \cup TransportFailures
AnswerText(a) == a.pre \o a.body \o a.post

\* the success test of the engine on each answer of the stub
Classified == [a \in StubAnswers |-> IsSuccess(AnswerText(a))]

\* Argument lists the engine is called with: the lists of query_sms_live,
\* a two-by-two call, and calls with an empty list.
Label_SMS      == <<"S", "M", "S">>
Label_Contacts == <<"C", "o", "n", "t", "a", "c", "t", "s">>
QueryCalls ==
    { [uris  |-> <<"content://sms/", "content://sms/inbox", "content://sms/sent">>,
       projs |-> <<"address:date:body:type", "address:date:body", "">>,
       label |-> Label_SMS],
      [uris  |-> <<"u1", "u2">>, projs |-> <<"p1", "p2">>, label |-> Label_Contacts],
      [uris  |-> <<"u1", "u2">>, projs |-> <<>>, label |-> Label_SMS],
      [uris  |-> <<>>, projs |-> <<"p1", "p2">>, label |-> Label_Contacts] }

\* f"All {label} query attempts failed."
AllFailedText(l) ==
    <<"A", "l", "l", " ">> \o l \o <<" ", "q", "u", "e", "r", "y", " ", "a", "t", "t", "e", "m", "p", "t", "s", " ", "f", "a", "i", "l", "e", "d", ".">>

\* the run_adb argument list of one attempt: `if projection:` chooses the shape
QueryArgs(uri, projection) ==
    IF projection # ""
    THEN <<"shell", "content", "query", "--uri", uri, "--projection", projection>>
    ELSE <<"shell", "content", "query", "--uri", uri>>

\* Faulty variant of NextIndex: the loops are nested the other way round.
NextIndexColumnMajor(i, j) ==
    IF i < Len(uri_variants) THEN <<i + 1, j>> ELSE <<1, j + 1>>

\* the two nested for loops: the loop position that follows (i, j)
NextIndex(i, j) ==
    IF j < Len(projection_variants) THEN <<i, j + 1>> ELSE <<i + 1, 1>>

\* some combination is left to try at position (i, j)
InLoop(i, j) ==
    /\ i <= Len(uri_variants)
    /\ j <= Len(projection_variants)

\* Faulty variant of SuccessResult: the first URI is reported instead of the current.
SuccessResultFirstUri(text, uri, projection) ==
    [success |-> TRUE, raw |-> text, uri_used |-> uri_variants[1],
     projection_used |-> projection]

\* `return True, result, uri, projection`
SuccessResult(text, uri, projection) ==
    [success |-> TRUE, raw |-> text, uri_used |-> uri,
     projection_used |-> projection]

\* Faulty variant of ExhaustedResult: the last attempt's text and URI are returned.
ExhaustedResultLastAttempt(l) ==
    [success |-> FALSE, raw |-> result,
     uri_used |-> IF attempts = <<>> THEN None ELSE attempts[Len(attempts)].uri,
     projection_used |-> None]

\* `return False, f"All {label} query attempts failed.", None, None`
ExhaustedResult(l) ==
    [success |-> FALSE, raw |-> AllFailedText(l), uri_used |-> None,
     projection_used |-> None]

NoResult == [success |-> FALSE, raw |-> <<>>, uri_used |-> None,
             projection_used |-> None]

QueryIdle ==
    /\ uri_variants = <<>>
    /\ projection_variants = <<>>
    /\ label = <<>>
    /\ qpc = "idle"
    /\ ui = 1
    /\ pj = 1
    /\ result = <<>>
    /\ attempts = <<>>
    /\ stub = [pre |-> <<>>, body |-> <<>>, post |-> <<>>, marker |-> FALSE,
              transport |-> FALSE]
    /\ qret = NoResult

\* entry of query_content_provider_with_fallbacks
QueryInit ==
    /\ \E c \in QueryCalls :
        /\ uri_variants = c.uris
        /\ projection_variants = c.projs
        /\ label = c.label
    /\ qpc = "loop"
    /\ ui = 1
    /\ pj = 1
    /\ result = <<>>
    /\ attempts = <<>>
    /\ stub = [pre |-> <<>>, body |-> <<>>, post |-> <<>>, marker |-> FALSE,
              transport |-> FALSE]
    /\ qret = NoResult

\* One pass of the inner loop body: one run_adb call, then the success test.
QueryAttempt ==
    /\ qpc = "loop"
    /\ InLoop(ui, pj)
    /\ \E a \in StubAnswers :
        LET uri        == uri_variants[ui]
            projection == projection_variants[pj]
            text       == AnswerText(a)
            ok         == Classified[a]
            nxt        == NextIndex(ui, pj)
        IN  /\ stub' = a
            /\ result' = text
            /\ attempts' = Append(attempts,
                   [uri |-> uri, projection |-> projection,
                    args |-> QueryArgs(uri, projection), success |-> ok,
                    bad |-> (a.marker \/ text = <<>>)])
            /\ IF ok
               THEN /\ qret' = SuccessResult(text, uri, projection)
                    /\ qpc' = "done"
                    /\ UNCHANGED <<ui, pj>>
               ELSE /\ ui' = nxt[1]
                    /\ pj' = nxt[2]
                    /\ UNCHANGED <<qret, qpc>>
    /\ UNCHANGED <<uri_variants, projection_variants, label>>
    /\ UNCHANGED <<extractVars, archiveVars, fullVars, adbVars, guiVars,
                   sessionVars, parseVars, epochVars>>

\* Both loops ran out: the synthesized failure is returned.
QueryExhausted ==
    /\ qpc = "loop"
    /\ ~ InLoop(ui, pj)
    /\ qret' = ExhaustedResult(label)
    /\ qpc' = "done"
    /\ UNCHANGED <<uri_variants, projection_variants, label, ui, pj, result,
                   attempts, stub>>
    /\ UNCHANGED <<extractVars, archiveVars, fullVars, adbVars, guiVars,
                   sessionVars, parseVars, epochVars>>

(***************************************************************************)
(* The simulated remote device.  Node 0 is the directory the extraction    *)
(* starts from, node 1 a second directory, node 2 a regular file.  A       *)
(* directory holds an ordered listing of names and resolves each name to   *)
(* a node: a name that resolves to the directory itself or to node 0 is a  *)
(* self-referential entry.  A name is a text; a path is the sequence of    *)
(* names below the start directory, so that two paths are the same string  *)
(* exactly when they are the same sequence (names hold no "/", and         *)
(* replace("//", "/") then changes nothing).  The transport answers every  *)
(* listing and directory test of the scan with the device's own output,    *)
(* except for a directory whose listing call times out: run_adb then       *)
(* returns its timeout text in place of the listing.                       *)
(***************************************************************************)
MaxList == 2          \* longest listing of a simulated directory
MaxDepth == 3         \* deepest path the model follows
MaxPullFailures == 1  \* pulls of one run that leave no complete file

RootDir  == "dir0"
SubDir   == "dir1"
FileNode == "file"
DirNodes == {RootDir, SubDir}
Nodes    == {RootDir, SubDir, FileNode}
\* what a path names when the device holds nothing of that name
MissingNode == "missing"

NamePlain  == <<"a">>
NameHidden == <<".", "h">>
Names      == {NamePlain, NameHidden}

DeniedLine == <<"l", "s", ":", " ", "P", "e", "r", "m", "i", "s", "s", "i", "o", "n", " ", "d", "e", "n", "i", "e", "d">>
NoSuchLine == <<"l", "s", ":", " ", "N", "o", " ", "s", "u", "c", "h", " ", "f", "i", "l", "e", " ", "o", "r", " ", "d", "i", "r", "e", "c", "t", "o", "r", "y">>

DirEntries == [name : Names, node : Nodes]
\* listings in which a repeated name resolves to the same node
EntrySeqs ==
    { es \in UNION { [1..n -> DirEntries] : n \in 0..MaxList } :
        \A i, k \in 1..Len(es) : es[i].name = es[k].name => es[i].node = es[k].node }
ContentOf(es) ==
    [lines |-> [k \in 1..Len(es) |-> es[k].name],
     to    |-> [nm \in Names |->
                  IF \E k \in 1..Len(es) : es[k].name = nm
                  THEN es[CHOOSE k \in 1..Len(es) : es[k].name = nm].node
                  ELSE FileNode]]
Unlistable(line) == [lines |-> <<line>>, to |-> [nm \in Names |-> FileNode]]
\* a directory whose `ls` does not answer within the timeout of run_adb
TimedOutListing == Unlistable(TimedOutText)
DirContents ==
    { ContentOf(es) : es \in EntrySeqs } \cup { Unlistable(DeniedLine), TimedOutListing }
Devices ==
    { [n \in DirNodes |-> IF n = RootDir THEN c0 ELSE c1] :
        c0 \in DirContents \cup { Unlistable(NoSuchLine) }, c1 \in DirContents }

Root == <<>>

RECURSIVE ResolveFrom(_, _)
ResolveFrom(n, path) ==
    IF path = <<>> THEN n
    ELSE IF n \in DirNodes /\ Head(path) \in Names /\ device[n] # TimedOutListing
         THEN ResolveFrom(device[n].to[Head(path)], Tail(path))
    ELSE IF n \in DirNodes THEN MissingNode
    ELSE n
\* the node a remote path names
Resolve(path) == ResolveFrom(RootDir, path)

\* what run_adb returns for `adb shell ls -1 <path>`, as lines
RECURSIVE PathText(_)
PathText(path) ==
    IF path = <<>> THEN <<>> ELSE <<"/">> \o Head(path) \o PathText(Tail(path))
LsOutput(path) ==
    IF Resolve(path) \in DirNodes THEN device[Resolve(path)].lines
    ELSE <<PathText(path)>>

\* what `adb shell [ -d "<path>" ] && echo DIR || echo FILE` prints
DirTestOutput(path) ==
    IF Resolve(path) \in DirNodes THEN <<"D", "I", "R">> ELSE <<"F", "I", "L", "E">>

\* is_directory: `"DIR" in out`
is_directory(path) == Contains(DirTestOutput(path), <<"D", "I", "R">>)

\* Faulty variant of ListingRejected: only an empty output is taken as no listing.
ListingRejectedOnlyEmpty(outp) == outp = <<>>

\* the test of list_directory and pull_folder_with_metadata on the listing:
\* `not out or "No such" in out or "denied" in out.lower()`
ListingRejected(outp) ==
    \/ outp = <<>>
    \/ \E k \in 1..Len(outp) : Contains(outp[k], <<"N", "o", " ", "s", "u", "c", "h">>)
    \/ \E k \in 1..Len(outp) : Contains(Lower(outp[k]), <<"d", "e", "n", "i", "e", "d">>)

IsNonEmptyLine(line) == line # <<>>

\* list_directory
list_directory(path) ==
    IF ListingRejected(LsOutput(path)) THEN <<>>
    ELSE SelectSeq(LsOutput(path), IsNonEmptyLine)

\* `" -> " in name or name.startswith(".")`
HiddenOrLink(name) ==
    \/ Contains(name, <<" ", "-", ">", " ">>)
    \/ (Len(name) >= 1 /\ name[1] = ".")

Last(seq) == seq[Len(seq)]
Front(seq) == SubSeq(seq, 1, Len(seq) - 1)

\* Faulty variant of AlreadyVisited: the visited set is never consulted.
AlreadyVisitedNever(path) == FALSE

\* `if current in visited: continue`
AlreadyVisited(path) == path \in visited

LsCall(path)  == [cmd |-> "ls", path |-> path]
DirCall(path) == [cmd |-> "test-d", path |-> path]
PullCall(path) == [cmd |-> "pull", path |-> path]

\* Faulty variant of ProbeCalls: a hidden or link entry is passed over unprobed.
ProbeCallsSkipHidden(name, full) ==
    IF HiddenOrLink(name) THEN <<>> ELSE <<DirCall(full)>>

\* Faulty variant of RecordEntry: the entry is put in front of the list.
RecordEntryInFront(d, full, dir) == <<[path |-> full, is_dir |-> dir]>> \o d

\* `discovered.append({"path": full, "is_dir": ...})`
RecordEntry(d, full, dir) == Append(d, [path |-> full, is_dir |-> dir])

\* the shell calls of one pass of `for name in entries`: is_directory(full)
\* is called once, in the hidden-or-link branch and in the ordinary branch
ProbeCalls(name, full) == <<DirCall(full)>>

(***************************************************************************)
(* The local filesystem under dest_root.  The local path of a remote path  *)
(* mirrors it (os.path.join(dest_root, remote.lstrip("/"))), so local      *)
(* files are keyed by the remote path.                                     *)
(***************************************************************************)
Absent == [kind |-> "absent", bytes |-> <<>>]
LocalDir == [kind |-> "dir", bytes |-> <<>>]
LocalFile(bytes) == [kind |-> "file", bytes |-> bytes]

\* bytes of the regular file of the device
FileBytes == <<77, 79>>

LocalAt(fs, path) == IF path \in DOMAIN fs THEN fs[path] ELSE Absent

\* os.path.exists
Exists(fs, path) == LocalAt(fs, path).kind # "absent"

\* os.path.getsize: byte count of a file, the size of the directory entry
\* for a directory
GetSize(fs, path) ==
    IF LocalAt(fs, path).kind = "file" THEN Len(LocalAt(fs, path).bytes) ELSE 4096

\* os.path.getmtime, as 1 for "some modification time"
GetMtime(fs, path) == 1

\* None in a digest member (digests are sequences, so None is the empty one)
NoDigest == <<>>
NullHashes == [md5 |-> NoDigest, sha1 |-> NoDigest, sha256 |-> NoDigest]

\* a hex digest, as the pair of its algorithm and the bytes digested
Digest(alg, bytes) == <<alg, bytes>>

\* compute_hashes: the three digests of a readable regular file; open() raises
\* on a directory or a missing path and the except clause returns the nulls
compute_hashes(fs, path) ==
    IF LocalAt(fs, path).kind = "file"
    THEN [md5    |-> Digest("md5", LocalAt(fs, path).bytes),
          sha1   |-> Digest("sha1", LocalAt(fs, path).bytes),
          sha256 |-> Digest("sha256", LocalAt(fs, path).bytes)]
    ELSE NullHashes

\* os.makedirs(os.path.dirname(local), exist_ok=True)
MakeParents(fs, path) ==
    [p \in DOMAIN fs \cup { SubSeq(path, 1, n) : n \in 1..(Len(path) - 1) } |->
        IF \E n \in 1..(Len(path) - 1) : p = SubSeq(path, 1, n)
        THEN LocalDir ELSE fs[p]]

SetLocal(fs, path, st) ==
    [p \in DOMAIN fs \cup {path} |-> IF p = path THEN st ELSE fs[p]]

\* What one `adb pull remote local` can do: the text run_adb returns and the
\* local state it leaves.  A complete pull writes the remote file (or creates
\* the directory, for a remote directory); a failed pull leaves the local
\* path as it was; a truncated pull leaves a zero-byte file.
PullOutcomes(fs, path) ==
    { o \in { [text |-> "1 file pulled.", fails |-> 0,
               fs |-> SetLocal(fs, path,
                         IF Resolve(path) \in DirNodes THEN LocalDir
                         ELSE LocalFile(FileBytes))] } :
        Resolve(path) # MissingNode }
    \cup
    { [text |-> "adb command timed out.", fails |-> 1, fs |-> fs],
      [text |-> "adb: error: failed to copy", fails |-> 1,
       fs |-> SetLocal(fs, path, LocalFile(<<>>))] }

\* Faulty variant of ManifestEntry: the transport's text is not kept.
ManifestEntryNoTransportText(fs, path, adb_out) ==
    [remote_path |-> path, local_path |-> path,
     size   |-> IF Exists(fs, path) THEN GetSize(fs, path) ELSE 0,
     mtime  |-> IF Exists(fs, path) THEN GetMtime(fs, path) ELSE 0,
     hashes |-> IF Exists(fs, path) THEN compute_hashes(fs, path) ELSE NullHashes,
     adb_result |-> "ok"]

\* the dict appended to the manifest after a pull
ManifestEntry(fs, path, adb_out) ==
    [remote_path |-> path, local_path |-> path,
     size   |-> IF Exists(fs, path) THEN GetSize(fs, path) ELSE 0,
     mtime  |-> IF Exists(fs, path) THEN GetMtime(fs, path) ELSE 0,
     hashes |-> IF Exists(fs, path) THEN compute_hashes(fs, path) ELSE NullHashes,
     adb_result |-> adb_out]

\* Faulty variant of AppendEntry: a leaf whose pull left no local file is dropped.
AppendEntryIfPulled(m, fs, path, adb_out) ==
    IF Exists(fs, path) THEN Append(m, ManifestEntry(fs, path, adb_out)) ELSE m

\* `manifest.append({...})`
AppendEntry(m, fs, path, adb_out) == Append(m, ManifestEntry(fs, path, adb_out))

ExtractIdle ==
    /\ device = [n \in DirNodes |-> ContentOf(<<>>)]
    /\ op = "none"
    /\ pc = "idle"
    /\ stack = <<>>
    /\ visited = {}
    /\ discovered = <<>>
    /\ current = Root
    /\ entries = <<>>
    /\ calls = <<>>
    /\ skipped = <<>>
    /\ localfs = <<>>
    /\ manifest = <<>>
    /\ observed = <<>>
    /\ pullFailures = 0
    /\ fidx = 1
    /\ ret = None

\* entry of brute_extract_folder (which starts brute_scan_fs) or of
\* pull_folder_with_metadata, on the start directory of some device
ExtractInit ==
    /\ device \in Devices
    /\ op \in {"brute", "folder"}
    /\ pc = IF op = "brute" THEN "scan" ELSE "folder"
    /\ stack = IF op = "brute" THEN <<Root>> ELSE <<>>
    /\ visited = {}
    /\ discovered = <<>>
    /\ current = Root
    /\ entries = <<>>
    /\ calls = <<>>
    /\ skipped = <<>>
    /\ localfs = <<>>
    /\ manifest = <<>>
    /\ observed = <<>>
    /\ pullFailures = 0
    /\ fidx = 1
    /\ ret = None

\* brute_scan_fs, head of the while loop: pop a path; skip it if visited,
\* otherwise mark it and list it
ScanPop ==
    /\ pc = "scan"
    /\ stack # <<>>
    /\ current' = Last(stack)
    /\ stack' = Front(stack)
    /\ IF AlreadyVisited(Last(stack))
       THEN /\ skipped' = Append(skipped, Last(stack))
            /\ UNCHANGED <<visited, entries, calls, pc>>
       ELSE /\ visited' = visited \cup {Last(stack)}
            /\ calls' = Append(calls, LsCall(Last(stack)))
            /\ entries' = list_directory(Last(stack))
            /\ pc' = IF list_directory(Last(stack)) = <<>> THEN "scan" ELSE "probe"
            /\ UNCHANGED skipped
    /\ UNCHANGED <<device, op, discovered, localfs, manifest, observed,
                   pullFailures, fidx, ret>>
    /\ UNCHANGED <<queryVars, archiveVars, fullVars, adbVars, guiVars,
                   sessionVars, parseVars, epochVars>>

\* brute_scan_fs, one pass of `for name in entries`.  The model follows paths
\* of at most MaxDepth names: a scan that would go deeper stops here.
ScanProbe ==
    /\ pc = "probe"
    /\ entries # <<>>
    /\ Len(current) < MaxDepth
    /\ LET name == Head(entries)
           full == Append(current, name)
           dir  == is_directory(full)
       IN  /\ calls' = calls \o ProbeCalls(name, full)
           /\ IF dir
              THEN /\ discovered' = RecordEntry(discovered, full, TRUE)
                   /\ stack' = Append(stack, full)
              ELSE IF HiddenOrLink(name)
              THEN UNCHANGED <<discovered, stack>>
              ELSE /\ discovered' = RecordEntry(discovered, full, FALSE)
                   /\ UNCHANGED stack
    /\ entries' = Tail(entries)
    /\ pc' = IF Tail(entries) = <<>> THEN "scan" ELSE "probe"
    /\ UNCHANGED <<device, op, visited, current, skipped, localfs, manifest,
                   observed, pullFailures, fidx, ret>>
    /\ UNCHANGED <<queryVars, archiveVars, fullVars, adbVars, guiVars,
                   sessionVars, parseVars, epochVars>>

\* brute_scan_fs returns `discovered`; brute_extract_folder goes on with it
\* as fs_items
ScanReturn ==
    /\ pc = "scan"
    /\ stack = <<>>
    /\ pc' = "extract"
    /\ fidx' = 1
    /\ UNCHANGED <<device, op, stack, visited, discovered, current, entries,
                   calls, skipped, localfs, manifest, observed, pullFailures, ret>>
    /\ UNCHANGED <<queryVars, archiveVars, fullVars, adbVars, guiVars,
                   sessionVars, parseVars, epochVars>>

\* brute_extract_folder, one pass of `for entry in fs_items`.  At most
\* MaxPullFailures pulls of a run end without a complete file.
ExtractEntry ==
    /\ pc = "extract"
    /\ fidx <= Len(discovered)
    /\ fidx' = fidx + 1
    /\ IF discovered[fidx].is_dir
       THEN UNCHANGED <<calls, localfs, manifest, observed, pullFailures>>
       ELSE \E o \in PullOutcomes(MakeParents(localfs, discovered[fidx].path),
                                  discovered[fidx].path) :
              /\ pullFailures + o.fails <= MaxPullFailures
              /\ pullFailures' = pullFailures + o.fails
              /\ calls' = Append(calls, PullCall(discovered[fidx].path))
              /\ localfs' = o.fs
              /\ manifest' = AppendEntry(manifest, o.fs, discovered[fidx].path, o.text)
              /\ observed' = Append(observed,
                     [path |-> discovered[fidx].path, text |-> o.text,
                      local |-> LocalAt(o.fs, discovered[fidx].path)])
    /\ UNCHANGED <<device, op, pc, stack, visited, discovered, current, entries,
                   skipped, ret>>
    /\ UNCHANGED <<queryVars, archiveVars, fullVars, adbVars, guiVars,
                   sessionVars, parseVars, epochVars>>

\* brute_extract_folder: `return manifest`
ExtractReturn ==
    /\ pc = "extract"
    /\ fidx > Len(discovered)
    /\ pc' = "done"
    /\ ret' = "manifest"
    /\ UNCHANGED <<device, op, stack, visited, discovered, current, entries,
                   calls, skipped, localfs, manifest, observed, pullFailures, fidx>>
    /\ UNCHANGED <<queryVars, archiveVars, fullVars, adbVars, guiVars,
                   sessionVars, parseVars, epochVars>>

\* pull_folder_with_metadata: list the folder; give up on an empty or
\* rejected listing
FolderList ==
    /\ pc = "folder"
    /\ calls' = Append(calls, LsCall(Root))
    /\ IF ListingRejected(LsOutput(Root))
       THEN /\ ret' = "No files found or permission denied."
            /\ pc' = "done"
            /\ UNCHANGED entries
       ELSE /\ entries' = SelectSeq(LsOutput(Root), IsNonEmptyLine)
            /\ pc' = "fpull"
            /\ UNCHANGED ret
    /\ UNCHANGED <<device, op, stack, visited, discovered, current, skipped,
                   localfs, manifest, observed, pullFailures, fidx>>
    /\ UNCHANGED <<queryVars, archiveVars, fullVars, adbVars, guiVars,
                   sessionVars, parseVars, epochVars>>

\* pull_folder_with_metadata, one pass of `for item in ls_output.splitlines()`
FolderPull ==
    /\ pc = "fpull"
    /\ entries # <<>>
    /\ LET remote == Append(Root, Head(entries))
       IN  \E o \in PullOutcomes(MakeParents(localfs, remote), remote) :
              /\ pullFailures + o.fails <= MaxPullFailures
              /\ pullFailures' = pullFailures + o.fails
              /\ calls' = Append(calls, PullCall(remote))
              /\ localfs' = o.fs
              /\ manifest' = AppendEntry(manifest, o.fs, remote, o.text)
              /\ observed' = Append(observed,
                     [path |-> remote, text |-> o.text, local |-> LocalAt(o.fs, remote)])
    /\ entries' = Tail(entries)
    /\ UNCHANGED <<device, op, pc, stack, visited, discovered, current, skipped,
                   fidx, ret>>
    /\ UNCHANGED <<queryVars, archiveVars, fullVars, adbVars, guiVars,
                   sessionVars, parseVars, epochVars>>

\* pull_folder_with_metadata: `return manifest`
FolderReturn ==
    /\ pc = "fpull"
    /\ entries = <<>>
    /\ pc' = "done"
    /\ ret' = "manifest"
    /\ UNCHANGED <<device, op, stack, visited, discovered, current, entries,
                   calls, skipped, localfs, manifest, observed, pullFailures, fidx>>
    /\ UNCHANGED <<queryVars, archiveVars, fullVars, adbVars, guiVars,
                   sessionVars, parseVars, epochVars>>

ExtractNext ==
    \/ ScanPop
    \/ ScanProbe
    \/ ScanReturn
    \/ ExtractEntry
    \/ ExtractReturn
    \/ FolderList
    \/ FolderPull
    \/ FolderReturn

(***************************************************************************)
(* archive_to_bin.  Bytes are the integers 0..255; output_bin is the       *)
(* sequence of bytes written so far.                                       *)
(***************************************************************************)
MaxEntries == 2       \* longest manifest handed to archive_to_bin
MaxTamper == 1        \* local files changed between extraction and archive

\* MAGIC = b"MOBIN001"
MAGIC == <<77, 79, 66, 73, 78, 48, 48, 49>>

RECURSIVE PackLE(_, _)
PackLE(n, width) ==
    IF width = 0 THEN <<>> ELSE <<n % 256>> \o PackLE(n \div 256, width - 1)

RECURSIVE PackBE(_, _)
PackBE(n, width) ==
    IF width = 0 THEN <<>> ELSE PackBE(n \div 256, width - 1) \o <<n % 256>>

\* Faulty variant of PackU64: the length is written big-endian (">Q").
PackU64BigEndian(n) == PackBE(n, 8)

\* struct.pack("<Q", n)
PackU64(n) == PackLE(n, 8)

\* the decimal rendering of a non-negative integer, in ASCII
RECURSIVE Decimal(_)
Decimal(n) ==
    IF n < 10 THEN <<48 + n>> ELSE Decimal(n \div 10) \o <<48 + (n % 10)>>

\* the byte that stands for a local path in the rendered manifest
PathByte(path) ==
    IF path = <<NamePlain>> THEN 97
    ELSE IF path = <<NameHidden>> THEN 104
    ELSE 63

\* One manifest entry as rendered by json.dumps.  Of the entry's members
\* the rendering keeps the two a reader of the container needs, local_path
\* and size: {p:<size in decimal>}
EncodeEntry(e) == <<123, PathByte(e.local_path), 58>> \o Decimal(e.size) \o <<125>>

RECURSIVE EncodeEntries(_)
EncodeEntries(m) ==
    IF m = <<>> THEN <<>>
    ELSE EncodeEntry(Head(m)) \o (IF Len(m) > 1 THEN <<44>> ELSE <<>>)
         \o EncodeEntries(Tail(m))

\* json.dumps({"generated": timestamp(), "entries": manifest}).encode("utf-8"),
\* the timestamp rendered as the one byte "T": {T,[entries]}
EncodeManifest(m) == <<123, 84, 44, 91>> \o EncodeEntries(m) \o <<93, 125>>

\* Faulty variant of FilePayload: every entry's bytes are followed by a separator.
FilePayloadWithSeparator(fs, path) == LocalAt(fs, path).bytes \o <<0>>

\* the chunks `f.read(4*1024*1024)` yields for a regular file, joined
FilePayload(fs, path) == LocalAt(fs, path).bytes

\* Faulty variant of WritesPayload: a local path met before is not written again.
WritesPayloadOnce(fs, m, k) ==
    /\ Exists(fs, m[k].local_path)
    /\ ~ \E j \in 1..(k - 1) : m[j].local_path = m[k].local_path

\* `if loc and os.path.exists(loc)` for the k-th entry of the manifest
WritesPayload(fs, m, k) == Exists(fs, m[k].local_path)

\* how much of a chunk has gone out when out.write raises: the first half
\* (nothing of a one-byte chunk)
WriteFailurePrefixes(chunk) == {Len(chunk) \div 2}

\* Faulty variant of OnException: the partial output file is removed.
OnExceptionCleanup(o, e) == [ret |-> "BIN creation failed", err |-> e, out |-> <<>>]

\* `except Exception as e: return f"BIN creation failed: {e}"`; the output
\* file keeps what was written
OnException(o, e) == [ret |-> "BIN creation failed", err |-> e, out |-> o]

\* states a local path can be in when the extraction recorded it
ArchiveBytes == { <<>>, <<65>>, FileBytes,
                  <<48, 49, 50, 51, 52, 53, 54, 55, 56, 57, 58, 59>> }
ArchiveStates == { Absent, LocalDir } \cup { LocalFile(b) : b \in ArchiveBytes }
ArchivePaths == { <<NamePlain>>, <<NameHidden>> }

ArchiveIdle ==
    /\ amanifest = <<>>
    /\ afs = <<>>
    /\ apc = "idle"
    /\ aidx = 1
    /\ out = <<>>
    /\ written = <<>>
    /\ aret = None
    /\ aerr = None
    /\ tampered = 0

\* entry of archive_to_bin: a manifest as the extraction recorded it from
\* some local filesystem (entries in any order, repeated or not)
ArchiveInit ==
    /\ afs \in [ArchivePaths -> ArchiveStates]
    /\ \E ps \in UNION { [1..n -> ArchivePaths] : n \in 0..MaxEntries } :
          amanifest = [k \in 1..Len(ps) |->
                          ManifestEntry(afs, ps[k], "1 file pulled.")]
    /\ apc = "start"
    /\ aidx = 1
    /\ out = <<>>
    /\ written = <<>>
    /\ aret = None
    /\ aerr = None
    /\ tampered = 0

\* another program changes a local file while the manifest is kept
LocalFileChanges ==
    /\ apc \in {"start", "entries"}
    /\ tampered < MaxTamper
    /\ tampered' = tampered + 1
    /\ \E p \in ArchivePaths, st \in ArchiveStates :
          /\ st # afs[p]
          /\ afs' = [afs EXCEPT ![p] = st]
    /\ UNCHANGED <<amanifest, apc, aidx, out, written, aret, aerr>>
    /\ UNCHANGED <<queryVars, extractVars, fullVars, adbVars, guiVars,
                   sessionVars, parseVars, epochVars>>

\* archive_to_bin: render the manifest, open output_bin, write the magic,
\* the length and the manifest.  open(output_bin, "wb") can raise (a missing
\* or read-only directory): nothing is written then.
ArchiveHeader ==
    /\ apc = "start"
    /\ \/ /\ out' = MAGIC \o PackU64(Len(EncodeManifest(amanifest)))
                          \o EncodeManifest(amanifest)
          /\ apc' = "entries"
          /\ UNCHANGED <<aret, aerr>>
       \/ /\ out' = OnException(out, "PermissionError").out
          /\ aret' = OnException(out, "PermissionError").ret
          /\ aerr' = OnException(out, "PermissionError").err
          /\ apc' = "done"
    /\ UNCHANGED <<amanifest, afs, aidx, written, tampered>>
    /\ UNCHANGED <<queryVars, extractVars, fullVars, adbVars, guiVars,
                   sessionVars, parseVars, epochVars>>

\* archive_to_bin, one pass of `for entry in manifest`: the bytes of an
\* existing local path are appended; open() of a directory raises, and
\* out.write of a chunk (an empty file yields none) can raise on a full disk
\* after part of the chunk went out; the except clause then returns the
\* failure string
ArchiveEntry ==
    /\ apc = "entries"
    /\ aidx <= Len(amanifest)
    /\ LET loc == amanifest[aidx].local_path
       IN  IF WritesPayload(afs, amanifest, aidx) /\ LocalAt(afs, loc).kind = "dir"
           THEN /\ out' = OnException(out, "IsADirectoryError").out
                /\ aret' = OnException(out, "IsADirectoryError").ret
                /\ aerr' = OnException(out, "IsADirectoryError").err
                /\ apc' = "done"
                /\ UNCHANGED <<written, aidx>>
           ELSE \/ /\ out' = IF WritesPayload(afs, amanifest, aidx)
                              THEN out \o FilePayload(afs, loc) ELSE out
                   /\ written' = Append(written, LocalAt(afs, loc).bytes)
                   /\ aidx' = aidx + 1
                   /\ UNCHANGED <<aret, aerr, apc>>
                \/ /\ WritesPayload(afs, amanifest, aidx)
                   /\ FilePayload(afs, loc) # <<>>
                   /\ \E n \in WriteFailurePrefixes(FilePayload(afs, loc)) :
                         LET partial == out \o SubSeq(FilePayload(afs, loc), 1, n)
                         IN  /\ out' = OnException(partial, "OSError").out
                             /\ aret' = OnException(partial, "OSError").ret
                             /\ aerr' = OnException(partial, "OSError").err
                   /\ apc' = "done"
                   /\ UNCHANGED <<written, aidx>>
    /\ UNCHANGED <<amanifest, afs, tampered>>
    /\ UNCHANGED <<queryVars, extractVars, fullVars, adbVars, guiVars,
                   sessionVars, parseVars, epochVars>>

\* archive_to_bin: `return f"BIN created -> {output_bin}"`
ArchiveReturn ==
    /\ apc = "entries"
    /\ aidx > Len(amanifest)
    /\ aret' = "BIN created"
    /\ apc' = "done"
    /\ UNCHANGED <<amanifest, afs, aidx, out, written, aerr, tampered>>
    /\ UNCHANGED <<queryVars, extractVars, fullVars, adbVars, guiVars,
                   sessionVars, parseVars, epochVars>>

ArchiveNext ==
    \/ LocalFileChanges
    \/ ArchiveHeader
    \/ ArchiveEntry
    \/ ArchiveReturn

(***************************************************************************)
(* perform_full_extraction.  Each source is one block of the function; what *)
(* the block's callee does (returns a list, returns a string, raises) is    *)
(* chosen by the environment.                                               *)
(***************************************************************************)
MaxSourceFailures == 2   \* sources of one run that do not succeed

PUBLIC_FOLDERS ==
    <<"/sdcard/DCIM", "/sdcard/Pictures", "/sdcard/Movies", "/sdcard/Music",
      "/sdcard/Download", "/sdcard/Documents", "/sdcard/WhatsApp",
      "/sdcard/Android/media">>
DumpNames == <<"sms-dump", "contacts-dump", "calls-dump">>

NumFolders == Len(PUBLIC_FOLDERS)
FirstDump  == NumFolders + 1
BackupStep == NumFolders + Len(DumpNames) + 1
BruteStep  == BackupStep + 1
LocalStep  == BruteStep + 1
ReturnStep == LocalStep + 1

\* a manifest entry of the orchestration: where it came from and the
\* transport-result member
FullEntry(root, item, adb_result) ==
    [remote_path |-> [root |-> root, item |-> item], adb_result |-> adb_result]

\* the list pull_folder_with_metadata returns for a folder with one child
FolderEntries(folder) == << FullEntry(folder, "item", "1 file pulled.") >>
\* the entry appended after a dump file was written
DumpEntry(name) == FullEntry(name, "", "content-provider")
BackupEntry == FullEntry("adb-backup", "", "adb-backup")
\* the list brute_extract_folder returns for /sdcard with one leaf
BruteEntries == << FullEntry("/sdcard", "item", "1 file pulled.") >>
\* scan_local_tree_for_manifest: one entry per local file, the files being
\* those of the entries collected before
LocalScanEntries(m) ==
    [k \in 1..Len(m) |-> FullEntry("local", m[k].remote_path.root, "local-scan")]

\* what a block's callee can do
FolderOutcomes == {"list", "string", "exception"}
DumpOutcomes   == {"written", "written-query-failed", "exception"}
BackupOutcomes == {"path", "none", "exception"}
ListOutcomes   == {"list", "exception"}
Succeeded == {"list", "written", "path"}

Failures(o) == IF o \in Succeeded THEN 0 ELSE 1

\* Faulty variant of AfterBlock: a block that did not succeed ends the run.
AfterBlockAbortOnFailure(step, o) ==
    IF o \in Succeeded THEN step + 1 ELSE ReturnStep

\* where the function goes on after a block: `except Exception: pass` and a
\* skipped `if isinstance(entries, list)` both fall through to the next block
AfterBlock(step, o) == step + 1

LogEntry(source, o, es) == [source |-> source, outcome |-> o, entries |-> es]

FullIdle ==
    /\ fpc = "idle"
    /\ fstep = 1
    /\ fmanifest = <<>>
    /\ flog = <<>>
    /\ ffails = 0
    /\ fret = None

\* entry of perform_full_extraction: `manifest = []`
FullInit ==
    /\ fpc = "run"
    /\ fstep = 1
    /\ fmanifest = <<>>
    /\ flog = <<>>
    /\ ffails = 0
    /\ fret = None

\* one pass of `for folder in PUBLIC_FOLDERS`
FullFolder ==
    /\ fpc = "run"
    /\ fstep \in 1..NumFolders
    /\ \E o \in FolderOutcomes :
          LET folder == PUBLIC_FOLDERS[fstep]
              es     == IF o = "list" THEN FolderEntries(folder) ELSE <<>>
          IN  /\ ffails + Failures(o) <= MaxSourceFailures
              /\ ffails' = ffails + Failures(o)
              /\ fmanifest' = IF o = "list" THEN fmanifest \o FolderEntries(folder)
                              ELSE fmanifest
              /\ flog' = Append(flog, LogEntry(folder, o, es))
              /\ fstep' = AfterBlock(fstep, o)
    /\ UNCHANGED <<fpc, fret>>
    /\ UNCHANGED <<queryVars, extractVars, archiveVars, adbVars, guiVars,
                   sessionVars, parseVars, epochVars>>

\* one of the three dump blocks: the text query_*_live returns is written to
\* a file and an entry is appended, whether the query succeeded or not;
\* open() or write() raising skips the entry
FullDump ==
    /\ fpc = "run"
    /\ fstep \in FirstDump..(BackupStep - 1)
    /\ \E o \in DumpOutcomes :
          LET name == DumpNames[fstep - NumFolders]
              es   == IF o = "exception" THEN <<>> ELSE << DumpEntry(name) >>
          IN  /\ ffails + Failures(o) <= MaxSourceFailures
              /\ ffails' = ffails + Failures(o)
              /\ fmanifest' = IF o = "exception" THEN fmanifest
                              ELSE Append(fmanifest, DumpEntry(name))
              /\ flog' = Append(flog, LogEntry(name, o, es))
              /\ fstep' = AfterBlock(fstep, o)
    /\ UNCHANGED <<fpc, fret>>
    /\ UNCHANGED <<queryVars, extractVars, archiveVars, adbVars, guiVars,
                   sessionVars, parseVars, epochVars>>

\* the backup block: `if backup:` appends an entry for the path returned
FullBackup ==
    /\ fpc = "run"
    /\ fstep = BackupStep
    /\ \E o \in BackupOutcomes :
          /\ ffails + Failures(o) <= MaxSourceFailures
          /\ ffails' = ffails + Failures(o)
          /\ fmanifest' = IF o = "path" THEN Append(fmanifest, BackupEntry)
                          ELSE fmanifest
          /\ flog' = Append(flog, LogEntry("adb-backup", o,
                               IF o = "path" THEN << BackupEntry >> ELSE <<>>))
          /\ fstep' = AfterBlock(fstep, o)
    /\ UNCHANGED <<fpc, fret>>
    /\ UNCHANGED <<queryVars, extractVars, archiveVars, adbVars, guiVars,
                   sessionVars, parseVars, epochVars>>

\* the brute scan block
FullBrute ==
    /\ fpc = "run"
    /\ fstep = BruteStep
    /\ \E o \in ListOutcomes :
          /\ ffails + Failures(o) <= MaxSourceFailures
          /\ ffails' = ffails + Failures(o)
          /\ fmanifest' = IF o = "list" THEN fmanifest \o BruteEntries ELSE fmanifest
          /\ flog' = Append(flog, LogEntry("brute-scan", o,
                               IF o = "list" THEN BruteEntries ELSE <<>>))
          /\ fstep' = AfterBlock(fstep, o)
    /\ UNCHANGED <<fpc, fret>>
    /\ UNCHANGED <<queryVars, extractVars, archiveVars, adbVars, guiVars,
                   sessionVars, parseVars, epochVars>>

\* the local scan block
FullLocalScan ==
    /\ fpc = "run"
    /\ fstep = LocalStep
    /\ \E o \in ListOutcomes :
          /\ ffails + Failures(o) <= MaxSourceFailures
          /\ ffails' = ffails + Failures(o)
          /\ fmanifest' = IF o = "list" THEN fmanifest \o LocalScanEntries(fmanifest)
                          ELSE fmanifest
          /\ flog' = Append(flog, LogEntry("local-scan", o,
                               IF o = "list" THEN LocalScanEntries(fmanifest) ELSE <<>>))
          /\ fstep' = AfterBlock(fstep, o)
    /\ UNCHANGED <<fpc, fret>>
    /\ UNCHANGED <<queryVars, extractVars, archiveVars, adbVars, guiVars,
                   sessionVars, parseVars, epochVars>>

\* `return manifest`
FullReturn ==
    /\ fpc = "run"
    /\ fstep = ReturnStep
    /\ fret' = fmanifest
    /\ fpc' = "done"
    /\ UNCHANGED <<fstep, fmanifest, flog, ffails>>
    /\ UNCHANGED <<queryVars, extractVars, archiveVars, adbVars, guiVars,
                   sessionVars, parseVars, epochVars>>

FullNext ==
    \/ FullFolder
    \/ FullDump
    \/ FullBackup
    \/ FullBrute
    \/ FullLocalScan
    \/ FullReturn

(***************************************************************************)
(* run_adb.  The output of the process is a sequence of bytes, each given  *)
(* as the character it decodes to; InvalidByte is a byte that is not valid *)
(* UTF-8 (0xFF), which latin-1 decodes to the character y-diaeresis.       *)
(***************************************************************************)
InvalidByte == "0xFF"
Latin1Char  == "y-diaeresis"
Whitespace  == {" ", "\n", "\t", "\r"}

\* bytes.decode('utf-8') raises UnicodeDecodeError on an invalid byte
ValidUtf8(raw) == \A k \in 1..Len(raw) : raw[k] # InvalidByte
\* bytes.decode('latin-1', errors='replace')
DecodeLatin1(raw) ==
    [k \in 1..Len(raw) |-> IF raw[k] = InvalidByte THEN Latin1Char ELSE raw[k]]
\* the try/except around each decode
Decode(raw) == IF ValidUtf8(raw) THEN raw ELSE DecodeLatin1(raw)

RECURSIVE LStrip(_)
LStrip(text) ==
    IF text # <<>> /\ Head(text) \in Whitespace THEN LStrip(Tail(text)) ELSE text
RECURSIVE RStrip(_)
RStrip(text) ==
    IF text # <<>> /\ text[Len(text)] \in Whitespace
    THEN RStrip(SubSeq(text, 1, Len(text) - 1)) ELSE text
\* str.strip()
Strip(text) == RStrip(LStrip(text))

\* what the process can print on one stream
RawOutputs ==
    { <<>>,
      <<" ", "\n">>,
      <<"L", "i", "s", "t", " ", "o", "f", " ", "d", "e", "v", "i", "c", "e", "s", " ", "a", "t", "t", "a", "c", "h", "e", "d", "\n", "R", "5", "8", "M", " ", "d", "e", "v", "i", "c", "e", "\n">>,
      <<" ", " ", "o", "k", " ", "\n">>,
      <<"c", "a", "f", InvalidByte, "\n">>,
      <<"\n", "e", "r", "r", "o", "r", ":", " ", "d", "e", "v", "i", "c", "e", " ", "o", "f", "f", "l", "i", "n", "e", "\n">> }

\* how subprocess.run can end
ProcessOutcomes ==
    { [kind |-> "completed", stdout |-> so, stderr |-> se, text |-> <<>>] :
        so \in RawOutputs, se \in RawOutputs }
    \cup { [kind |-> "TimeoutExpired", stdout |-> <<>>, stderr |-> <<>>, text |-> <<>>],
           [kind |-> "FileNotFoundError", stdout |-> <<>>, stderr |-> <<>>, text |-> <<>>] }
    \cup { [kind |-> "Exception", stdout |-> <<>>, stderr |-> <<>>, text |-> t] :
             t \in ExceptionTexts }
NoProcess == [kind |-> "none", stdout |-> <<>>, stderr |-> <<>>, text |-> <<>>]

\* argument lists of list_devices, list_apps, list_files and is_directory
AdbCalls ==
    { <<"devices", "-l">>,
      <<"shell", "pm", "list", "packages", "-3">>,
      <<"shell", "ls", "-a", "/sdcard/">>,
      <<"shell", "[ -d \"/sdcard\" ] && echo DIR || echo FILE">> }

\* Faulty variant of CompletedText: standard error is preferred.
CompletedTextStderrFirst(so, se) ==
    IF Strip(Decode(se)) # <<>> THEN Strip(Decode(se)) ELSE Strip(Decode(so))

\* `return out if out else err`
CompletedText(so, se) ==
    IF Strip(Decode(so)) # <<>> THEN Strip(Decode(so)) ELSE Strip(Decode(se))

\* the value run_adb returns for each end of subprocess.run
RunAdbResult(proc) ==
    IF proc.kind = "completed" THEN CompletedText(proc.stdout, proc.stderr)
    ELSE IF proc.kind = "TimeoutExpired" THEN TimedOutText
    ELSE IF proc.kind = "FileNotFoundError" THEN NotFoundText
    ELSE AdbErrorPrefix \o proc.text

NotReturned == [returned |-> FALSE, text |-> <<>>]
Returned(text) == [returned |-> TRUE, text |-> text]

RunAdbIdle ==
    /\ rargs = <<>>
    /\ rpc = "idle"
    /\ rproc = NoProcess
    /\ spawned = 0
    /\ rret = NotReturned

\* entry of run_adb
RunAdbInit ==
    /\ rargs \in AdbCalls
    /\ rpc = "call"
    /\ rproc = NoProcess
    /\ spawned = 0
    /\ rret = NotReturned

\* subprocess.run(["adb"] + args, ...) starts the process once; with a
\* missing binary, or on another error of the start, that one start raises
RunAdbSpawn ==
    /\ rpc = "call"
    /\ spawned' = spawned + 1
    /\ \/ /\ rpc' = "wait"
          /\ UNCHANGED rproc
       \/ /\ \E p \in ProcessOutcomes :
                /\ p.kind \in {"FileNotFoundError", "Exception"}
                /\ rproc' = p
          /\ rpc' = "ended"
    /\ UNCHANGED <<rargs, rret>>
    /\ UNCHANGED <<queryVars, extractVars, archiveVars, fullVars, guiVars,
                   sessionVars, parseVars, epochVars>>

\* subprocess.run waits for the process: it completes, or the timeout expires
RunAdbWait ==
    /\ rpc = "wait"
    /\ \E p \in ProcessOutcomes :
          /\ p.kind \in {"completed", "TimeoutExpired"}
          /\ rproc' = p
    /\ rpc' = "ended"
    /\ UNCHANGED <<rargs, spawned, rret>>
    /\ UNCHANGED <<queryVars, extractVars, archiveVars, fullVars, guiVars,
                   sessionVars, parseVars, epochVars>>

\* the decoding and the return statements
RunAdbReturn ==
    /\ rpc = "ended"
    /\ rret' = Returned(RunAdbResult(rproc))
    /\ rpc' = "done"
    /\ UNCHANGED <<rargs, rproc, spawned>>
    /\ UNCHANGED <<queryVars, extractVars, archiveVars, fullVars, guiVars,
                   sessionVars, parseVars, epochVars>>

RunAdbNext ==
    \/ RunAdbSpawn
    \/ RunAdbWait
    \/ RunAdbReturn

(***************************************************************************)
(* The GUI's worker threads.  Every operation the user starts is wrapped   *)
(* in a Worker (a QThread) that is started at once; the thread runs the    *)
(* operation, whose run_adb calls each block until the adb process ends.   *)
(***************************************************************************)
MaxWorkers == 3       \* operations the user starts
MaxCallsPerOp == 2    \* run_adb calls of the longest operation

WorkerIds == 1..MaxWorkers

\* self._last_manifest: None, or the list a callback stored
NoManifest == [none |-> TRUE, entries |-> <<>>]
Stored(es) == [none |-> FALSE, entries |-> es]
\* `if not self._last_manifest`: None and the empty list are both falsy
Truthy(m) == ~ m.none /\ m.entries # <<>>

\* operations of the sidebar and the run_adb calls each makes: list_devices
\* and list_files make one; is_directory after list_directory, as in
\* brute_extract_folder on a one-entry root, makes MaxCallsPerOp; the
\* archive makes none.  cb: the operation is started by run_with_callback
\* with a callback that stores a list result in _last_manifest.
GuiOperations ==
    { [fn |-> "list_devices", calls |-> 1, cb |-> FALSE],
      [fn |-> "list_files", calls |-> 1, cb |-> FALSE],
      [fn |-> "brute_extract_folder", calls |-> MaxCallsPerOp, cb |-> TRUE] }

\* what the function of a Worker can hand to Worker.run: a manifest list
\* (of one entry, named after the Worker, or empty), a string, or an exception
Pending == [kind |-> "pending", entries |-> <<>>]
FnOutcomes(fn, w) ==
    IF fn = "brute_extract_folder"
    THEN { [kind |-> "list", entries |-> <<w>>], [kind |-> "list", entries |-> <<>>],
           [kind |-> "str", entries |-> <<>>], [kind |-> "raise", entries |-> <<>>] }
    ELSE { [kind |-> "str", entries |-> <<>>], [kind |-> "raise", entries |-> <<>>] }

\* Worker.run: `try: result = self.fn()  except Exception as e: result = f"Error: {e}"`
WorkerResult(o) ==
    IF o.kind = "raise" THEN [kind |-> "str", entries |-> <<>>] ELSE o

\* the callbacks of the extraction handlers:
\* `if not isinstance(manifest, list): ...; return` / `self._last_manifest = manifest`
Callback(m, res) == IF res.kind = "list" THEN Stored(res.entries) ELSE m

Unused == [st |-> "unused", fn |-> "", todo |-> 0, cb |-> FALSE, res |-> Pending,
           emits |-> 0, req |-> NoManifest, arg |-> NoManifest]

GuiIdle ==
    /\ gworkers = <<>>
    /\ wstate = [w \in WorkerIds |-> Unused]
    /\ inflight = {}
    /\ last_manifest = NoManifest

\* the window is shown: no Worker yet, self._last_manifest = None
GuiInit ==
    /\ gworkers = <<>>
    /\ wstate = [w \in WorkerIds |-> Unused]
    /\ inflight = {}
    /\ last_manifest = NoManifest

\* the folder dialog of ui_create_bin_from_last is open
Choosing == \E w \in WorkerIds : wstate[w].st = "choosing"

\* the next free Worker of the model
NextWorker(w) ==
    /\ wstate[w].st = "unused"
    /\ \A v \in WorkerIds : v < w => wstate[v].st # "unused"

\* run_plain / run_with_callback: Worker(fn), self.workers.append(worker),
\* worker.start().  Nothing waits for the Workers started before.
GuiRun ==
    /\ ~ Choosing
    /\ \E w \in WorkerIds, o \in GuiOperations :
          /\ NextWorker(w)
          /\ wstate' = [wstate EXCEPT ![w] = [Unused EXCEPT !.st = "running",
                                              !.fn = o.fn, !.todo = o.calls,
                                              !.cb = o.cb]]
          /\ gworkers' = Append(gworkers, w)
    /\ UNCHANGED <<inflight, last_manifest>>
    /\ UNCHANGED <<queryVars, extractVars, archiveVars, fullVars, adbVars,
                   sessionVars, parseVars, epochVars>>

\* ui_create_bin_from_last, up to the folder dialog: the button is pressed
\* with a manifest stored (req keeps which), and choose_folder() opens.  The
\* dialog runs the event loop, so slots of finished Workers still run.
GuiRequestBin ==
    /\ ~ Choosing
    /\ Truthy(last_manifest)
    /\ \E w \in WorkerIds :
          /\ NextWorker(w)
          /\ wstate' = [wstate EXCEPT ![w] = [Unused EXCEPT !.st = "choosing",
                                              !.fn = "archive_to_bin",
                                              !.req = last_manifest]]
    /\ UNCHANGED <<gworkers, inflight, last_manifest>>
    /\ UNCHANGED <<queryVars, extractVars, archiveVars, fullVars, adbVars,
                   sessionVars, parseVars, epochVars>>

\* ui_create_bin_from_last, after the dialog: no folder chosen (`return`), or
\* run_plain(lambda: archive_to_bin(self._last_manifest, out_path))
GuiBinChosen ==
    /\ \E w \in WorkerIds :
          /\ wstate[w].st = "choosing"
          /\ \/ /\ wstate' = [wstate EXCEPT ![w].st = "cancelled"]
                /\ UNCHANGED gworkers
             \/ /\ wstate' = [wstate EXCEPT ![w].st = "starting"]
                /\ gworkers' = Append(gworkers, w)
    /\ UNCHANGED <<inflight, last_manifest>>
    /\ UNCHANGED <<queryVars, extractVars, archiveVars, fullVars, adbVars,
                   sessionVars, parseVars, epochVars>>

\* Worker.run of the archive Worker calls the lambda, which reads
\* self._last_manifest and hands it to archive_to_bin
WorkerArchive ==
    /\ \E w \in WorkerIds :
          /\ wstate[w].st = "starting"
          /\ wstate' = [wstate EXCEPT ![w].st = "running",
                                      ![w].arg = last_manifest]
    /\ UNCHANGED <<gworkers, inflight, last_manifest>>
    /\ UNCHANGED <<queryVars, extractVars, archiveVars, fullVars, adbVars,
                   sessionVars, parseVars, epochVars>>

\* Worker.run -> self.fn() -> run_adb: subprocess.run starts adb and blocks
WorkerCall ==
    /\ \E w \in WorkerIds :
          /\ wstate[w].st = "running"
          /\ wstate[w].todo > 0
          /\ wstate' = [wstate EXCEPT ![w].st = "blocked"]
          /\ inflight' = inflight \cup {w}
    /\ UNCHANGED <<gworkers, last_manifest>>
    /\ UNCHANGED <<queryVars, extractVars, archiveVars, fullVars, adbVars,
                   sessionVars, parseVars, epochVars>>

\* the adb process ends (or times out) and run_adb returns to the operation
WorkerCallReturns ==
    /\ \E w \in WorkerIds :
          /\ wstate[w].st = "blocked"
          /\ wstate' = [wstate EXCEPT ![w].st = "running",
                                      ![w].todo = wstate[w].todo - 1]
          /\ inflight' = inflight \ {w}
    /\ UNCHANGED <<gworkers, last_manifest>>
    /\ UNCHANGED <<queryVars, extractVars, archiveVars, fullVars, adbVars,
                   sessionVars, parseVars, epochVars>>

\* Worker.run: the operation returned or raised, self.finished.emit(result)
WorkerEmit ==
    /\ \E w \in WorkerIds :
          /\ wstate[w].st = "running"
          /\ wstate[w].todo = 0
          /\ \E o \in FnOutcomes(wstate[w].fn, w) :
                wstate' = [wstate EXCEPT ![w].st = "emitted",
                                         ![w].res = WorkerResult(o),
                                         ![w].emits = wstate[w].emits + 1]
    /\ UNCHANGED <<gworkers, inflight, last_manifest>>
    /\ UNCHANGED <<queryVars, extractVars, archiveVars, fullVars, adbVars,
                   sessionVars, parseVars, epochVars>>

\* the `finished` slot on the GUI thread: the callback of run_with_callback,
\* then self.workers.remove(worker)
GuiFinished ==
    /\ \E w \in WorkerIds :
          /\ wstate[w].st = "emitted"
          /\ wstate' = [wstate EXCEPT ![w].st = "removed"]
          /\ gworkers' = SelectSeq(gworkers, LAMBDA v : v # w)
          /\ last_manifest' = IF wstate[w].cb
                              THEN Callback(last_manifest, wstate[w].res)
                              ELSE last_manifest
    /\ UNCHANGED inflight
    /\ UNCHANGED <<queryVars, extractVars, archiveVars, fullVars, adbVars,
                   sessionVars, parseVars, epochVars>>

GuiNext ==
    \/ GuiRun
    \/ GuiRequestBin
    \/ GuiBinChosen
    \/ WorkerArchive
    \/ WorkerCall
    \/ WorkerCallReturns
    \/ WorkerEmit
    \/ GuiFinished

(***************************************************************************)
(* SessionManager.  A session is named after the device serial and the     *)
(* day; the model has one day.  log_operation is called from the Worker    *)
(* threads of the view actions (through DataLogger), start_session from    *)
(* the GUI thread.  A thread can be suspended between the call of          *)
(* get_next_operation_id and the append to operations_log: the timestamp   *)
(* calls lie between them.                                                 *)
(***************************************************************************)
MaxLogCalls == 3      \* log_operation calls of one run
MaxThreads == 2       \* Worker threads that log at the same time

LogThreads == 1..MaxThreads
Serials == {"R58M", "UNKNOWN_DEVICE"}

Digits == <<"0", "1", "2", "3", "4", "5", "6", "7", "8", "9">>
\* the decimal digits of a non-negative integer
RECURSIVE DigitsOf(_)
DigitsOf(n) ==
    IF n < 10 THEN <<Digits[n + 1]>> ELSE DigitsOf(n \div 10) \o <<Digits[(n % 10) + 1]>>
\* format spec 04d: zero-padded to four digits, longer numbers in full
RECURSIVE ZeroPad(_, _)
ZeroPad(ds, width) == IF Len(ds) >= width THEN ds ELSE ZeroPad(<<"0">> \o ds, width)

\* f"op_{self.operation_counter:04d}"
OperationId(n) == <<"o", "p", "_">> \o ZeroPad(DigitsOf(n), 4)

\* the operations_log of n operations logged one after the other
RECURSIVE SequentialLog(_)
SequentialLog(n) ==
    IF n = 0 THEN <<>>
    ELSE Append(SequentialLog(n - 1), [operation_id |-> OperationId(n)])

NoFile == [exists |-> FALSE, log |-> <<>>]
MetadataFile(log) == [exists |-> TRUE, log |-> log]
NoSession == [active |-> FALSE, id |-> "", log |-> <<>>]
Outside == [pc |-> "outside", id |-> <<>>]

SessionIdle ==
    /\ sdisk = [d \in Serials |-> NoFile]
    /\ current_session = NoSession
    /\ operation_counter = 0
    /\ lthreads = [t \in LogThreads |-> Outside]
    /\ slogged = 0

\* SessionManager.__init__, over a base directory in which earlier runs of
\* the program left sessions of up to two operations
SessionInit ==
    /\ sdisk \in [Serials -> {NoFile} \cup { MetadataFile(SequentialLog(n)) : n \in 0..2 }]
    /\ current_session = NoSession
    /\ operation_counter = 0
    /\ lthreads = [t \in LogThreads |-> Outside]
    /\ slogged = 0

\* start_session: resume the session of the device from its metadata file,
\* or create it; then _save_metadata
StartSession ==
    /\ \A t \in LogThreads : lthreads[t].pc = "outside"
    /\ \E serial \in Serials :
          LET log == IF sdisk[serial].exists THEN sdisk[serial].log ELSE <<>>
          IN  /\ operation_counter' = Len(log)
              /\ current_session' = [active |-> TRUE, id |-> serial, log |-> log]
              /\ sdisk' = [sdisk EXCEPT ![serial] = MetadataFile(log)]
    /\ UNCHANGED <<lthreads, slogged>>
    /\ UNCHANGED <<queryVars, extractVars, archiveVars, fullVars, adbVars, guiVars,
                   parseVars, epochVars>>

\* log_operation up to the operation id: `if not self.current_session:
\* return`, else get_next_operation_id()
LogOperationId ==
    /\ slogged < MaxLogCalls
    /\ \E t \in LogThreads :
          /\ lthreads[t].pc = "outside"
          /\ IF ~ current_session.active
             THEN UNCHANGED <<operation_counter, lthreads>>
             ELSE /\ operation_counter' = operation_counter + 1
                  /\ lthreads' = [lthreads EXCEPT ![t] =
                        [pc |-> "entry", id |-> OperationId(operation_counter + 1)]]
    /\ slogged' = slogged + 1
    /\ UNCHANGED <<sdisk, current_session>>
    /\ UNCHANGED <<queryVars, extractVars, archiveVars, fullVars, adbVars, guiVars,
                   parseVars, epochVars>>

\* log_operation from the append on: operations_log.append(operation_entry),
\* _save_metadata(), return
LogOperationAppend ==
    /\ \E t \in LogThreads :
          /\ lthreads[t].pc = "entry"
          /\ LET log == Append(current_session.log, [operation_id |-> lthreads[t].id])
             IN  /\ current_session' = [current_session EXCEPT !.log = log]
                 /\ sdisk' = [sdisk EXCEPT ![current_session.id] = MetadataFile(log)]
          /\ lthreads' = [lthreads EXCEPT ![t] = Outside]
    /\ UNCHANGED <<operation_counter, slogged>>
    /\ UNCHANGED <<queryVars, extractVars, archiveVars, fullVars, adbVars, guiVars,
                   parseVars, epochVars>>

SessionNext ==
    \/ StartSession
    \/ LogOperationId
    \/ LogOperationAppend

(***************************************************************************)
(* The parsers of the content provider output.  A text is a sequence of    *)
(* lines, a line is written as                                             *)
(*     ["# "] ["Row: 0 "] key=value, key=value, ...      or as prose,      *)
(* and the regular expressions of parsers.py are followed on this shape:   *)
(* an expression that is not anchored finds its first key also as the end  *)
(* of a longer key (KeyEnds), a key that follows `,\s*` is matched in      *)
(* full, `\d+` wants a value of digits, a lazy group runs up to the first  *)
(* place where the rest of the expression matches.  Keys and values hold   *)
(* no "=", "," or blank.  A captured text is kept as the sequence of the   *)
(* pieces it is made of.  Each record carries, besides the fields of the   *)
(* code, the strategy that made it (by) and the line of raw_text its       *)
(* match starts in (line); its "date" field is the function of             *)
(* date_epoch_ms that SpecEpoch follows.                                   *)
(***************************************************************************)
MaxLines == 2         \* lines of the longest text

Field(k, v) == [k |-> k, v |-> v]
DataLine(hash, row, fields) == [hash |-> hash, row |-> row, prose |-> "", fields |-> fields]
ProseLine(hash, words) == [hash |-> hash, row |-> FALSE, prose |-> words, fields |-> <<>>]
BlankLine == ProseLine(FALSE, "")

\* values of digits, and values made of the characters of [\+\d\s\(\)-]
DigitValues == {"1700000000000", "42"}
NumberValues == DigitValues \cup {"+15551234567"}

\* str.lower() of a key
LowerKey(k) ==
    CASE k = "NAME" -> "name" [] k = "NUMBER" -> "number"
      [] k = "DURATION" -> "duration" [] k = "DATE" -> "date" [] OTHER -> k
\* the pattern words a key ends with
KeyEnds(k) ==
    CASE k = "phone_number" -> {"phone_number", "number"}
      [] k = "cached_name" -> {"cached_name", "name"}
      [] k = "caller_name" -> {"caller_name", "name"}
      [] k = "display_name" -> {"display_name", "name"}
      [] k = "call_duration" -> {"call_duration", "duration"}
      [] OTHER -> {k}

Sms(a, b, c) == <<Field(a[1], a[2]), Field(b[1], b[2]), Field(c[1], c[2])>>
\* lines of SMS dumps in the formats of the four strategies
SmsLines ==
    LET std  == Sms(<<"address", "+15551234567">>, <<"date", "1700000000000">>, <<"body", "Hi">>)
        typed == <<Field("address", "+15551234567"), Field("date", "1700000000000"),
                   Field("type", "1"), Field("body", "Hi")>>
        alt1 == Sms(<<"phone_number", "+15551234567">>, <<"date", "1700000000000">>, <<"message", "Hi">>)
        alt2 == Sms(<<"sender", "+15551234567">>, <<"timestamp", "1700000000000">>, <<"text", "Hi">>)
        alt3 == Sms(<<"number", "+15551234567">>, <<"date_sent", "1700000000000">>, <<"body", "Hi">>)
        kv   == <<Field("sender", "+15551234567"), Field("text", "Hi")>>
        void == Sms(<<"address", "">>, <<"date", "42">>, <<"body", "">>)
        word == Sms(<<"address", "+15551234567">>, <<"date", "soon">>, <<"body", "Hi">>)
    IN  { DataLine(FALSE, FALSE, f) : f \in {std, typed, alt1, alt2, alt3, kv, void, word,
                                              <<Field("x", "1")>>} }
        \cup { DataLine(FALSE, TRUE, f) : f \in {std, typed, kv} }
        \cup { DataLine(TRUE, FALSE, f) : f \in {std, alt1} }
        \cup { ProseLine(FALSE, "no messages"), ProseLine(TRUE, "uri used"), BlankLine }

Call(a, b, c, d) == <<Field(a[1], a[2]), Field(b[1], b[2]), Field(c[1], c[2]), Field(d[1], d[2])>>
\* lines of call log dumps
CallLines ==
    LET std  == Call(<<"name", "Alice">>, <<"number", "+15551234567">>, <<"duration", "42">>,
                     <<"date", "1700000000000">>)
        cach == Call(<<"cached_name", "">>, <<"number", "+15551234567">>, <<"duration", "42">>,
                     <<"date", "1700000000000">>)
        caps == Call(<<"NAME", "Alice">>, <<"NUMBER", "+15551234567">>, <<"DURATION", "42">>,
                     <<"DATE", "1700000000000">>)
        typed == Call(<<"number", "+15551234567">>, <<"duration", "42">>, <<"type", "1">>,
                      <<"date", "1700000000000">>)
        alt1 == Call(<<"caller_name", "Alice">>, <<"phone_number", "+15551234567">>,
                     <<"call_duration", "42">>, <<"timestamp", "1700000000000">>)
        alt2 == Call(<<"contact", "Alice">>, <<"number", "+15551234567">>, <<"duration", "42">>,
                     <<"time", "1700000000000">>)
        kv   == <<Field("name", "Alice"), Field("number", "+15551234567")>>
        tel  == <<Field("phone", "+15551234567"), Field("x", "1")>>
    IN  { DataLine(FALSE, FALSE, f) : f \in {std, cach, caps, typed, alt1, alt2, kv, tel,
                                              <<Field("x", "1")>>} }
        \cup { DataLine(FALSE, TRUE, f) : f \in {std, typed, kv} }
        \cup { DataLine(TRUE, FALSE, f) : f \in {std, alt1} }
        \cup { ProseLine(FALSE, "no calls"), ProseLine(TRUE, "uri used"), BlankLine }

\* lines of contact dumps
ContactLines ==
    LET std  == <<Field("display_name", "Alice"), Field("data1", "+15551234567")>>
        more == <<Field("display_name", "Bob"), Field("x", "1"), Field("data1", "42")>>
        none == <<Field("display_name", "Carol"), Field("data1", "")>>
        word == <<Field("display_name", "Dan"), Field("data1", "home")>>
    IN  { DataLine(FALSE, TRUE, f) : f \in {std, more, none, word} }
        \cup { DataLine(TRUE, TRUE, f) : f \in {std, none} }
        \cup { DataLine(FALSE, FALSE, f) : f \in {std, <<Field("x", "1")>>} }
        \cup { ProseLine(FALSE, "no contacts"), ProseLine(TRUE, "uri used"), BlankLine }

LinesOf(p) ==
    IF p = "sms" THEN SmsLines ELSE IF p = "calls" THEN CallLines ELSE ContactLines
Texts(p) == UNION { [1..n -> LinesOf(p)] : n \in 0..MaxLines }

(* ---- the text of a line and of a capture, in pieces -------------------- *)
IsBlank(line) == ~ line.hash /\ ~ line.row /\ line.fields = <<>> /\ line.prose = ""

LinePrefix(line) ==
    (IF line.hash THEN <<"# ">> ELSE <<>>) \o (IF line.row THEN <<"Row: 0 ">> ELSE <<>>)
\* fields i..j of a line, each after a ", "
RECURSIVE FieldPieces(_, _, _)
FieldPieces(line, i, j) ==
    IF i > j THEN <<>>
    ELSE <<", ", line.fields[i].k, "=", line.fields[i].v>> \o FieldPieces(line, i + 1, j)
LinePieces(line) ==
    LinePrefix(line)
    \o (IF line.prose # "" THEN <<line.prose>> ELSE <<>>)
    \o (IF line.fields = <<>> THEN <<>>
        ELSE <<line.fields[1].k, "=", line.fields[1].v>>
             \o FieldPieces(line, 2, Len(line.fields)))
\* lines i..j of a text, each after a line break
RECURSIVE LinesPieces(_, _, _)
LinesPieces(t, i, j) ==
    IF i > j THEN <<>> ELSE <<"\n">> \o LinePieces(t[i]) \o LinesPieces(t, i + 1, j)

\* the text from the value of field p = <<line, field>> up to the separator
\* in front of field q
Span(t, p, q) ==
    IF p[1] = q[1]
    THEN <<t[p[1]].fields[p[2]].v>> \o FieldPieces(t[p[1]], p[2] + 1, q[2] - 1)
    ELSE <<t[p[1]].fields[p[2]].v>>
         \o FieldPieces(t[p[1]], p[2] + 1, Len(t[p[1]].fields))
         \o LinesPieces(t, p[1] + 1, q[1] - 1)
         \o <<"\n">> \o LinePrefix(t[q[1]])
         \o <<t[q[1]].fields[1].k, "=", t[q[1]].fields[1].v>>
         \o FieldPieces(t[q[1]], 2, q[2] - 1)
\* the text from the value of field p to the end of line e
SpanToLine(t, p, e) ==
    <<t[p[1]].fields[p[2]].v>>
    \o FieldPieces(t[p[1]], p[2] + 1, Len(t[p[1]].fields))
    \o LinesPieces(t, p[1] + 1, e)

\* str.strip() of a capture: empty pieces and line breaks at the ends go
RECURSIVE StripPieces(_)
StripPieces(ps) ==
    IF ps = <<>> THEN ps
    ELSE IF Head(ps) \in {"", "\n"} THEN StripPieces(Tail(ps))
    ELSE IF ps[Len(ps)] \in {"", "\n"} THEN StripPieces(SubSeq(ps, 1, Len(ps) - 1))
    ELSE ps
Piece(v) == StripPieces(<<v>>)

(* ---- positions ---------------------------------------------------------- *)
Positions(t) == UNION { { <<l, f>> : f \in 1..Len(t[l].fields) } : l \in 1..Len(t) }
Before(p, q) == p[1] < q[1] \/ (p[1] = q[1] /\ p[2] < q[2])
First(ps) == CHOOSE p \in ps : \A q \in ps : p = q \/ Before(p, q)
At(t, p) == t[p[1]].fields[p[2]]
\* the fields of one line, as positions
InLine(t, l) == { <<l, f>> : f \in 1..Len(t[l].fields) }

\* `raw_text.splitlines()`: a line break at the very end opens no line
SplitLines(raw) ==
    IF raw # <<>> /\ IsBlank(raw[Len(raw)]) THEN SubSeq(raw, 1, Len(raw) - 1) ELSE raw
\* the lines with their place in raw_text
Numbered(raw) == [i \in 1..Len(raw) |->
    [hash |-> raw[i].hash, row |-> raw[i].row, prose |-> raw[i].prose,
     fields |-> raw[i].fields, src |-> i]]
NotComment(line) == ~ line.hash

\* `[line for line in raw_text.splitlines() if not line.startswith("#")]`
SkipMetadata(raw) == SelectSeq(Numbered(SplitLines(raw)), NotComment)

\* `not raw_text`: the text is the empty string
IsEmptyText(raw) == raw = <<>> \/ (Len(raw) = 1 /\ IsBlank(raw[1]))
\* `not text.strip()`
IsBlankText(t) == \A l \in 1..Len(t) : IsBlank(t[l])

(* ---- parse_sms_text ----------------------------------------------------- *)
SmsRecord(addr, date, body, by, line) ==
    [address |-> addr, date_epoch_ms |-> date, body |-> body, by |-> by, line |-> line]

\* strategy 1: the fields date, body next to each other, found from the
\* first address= on, in this line or a later one (DOTALL); the body runs
\* to the last line before the next line that starts with "Row"
DateBodyAfter(t, a) ==
    { p \in Positions(t) :
        /\ Before(a, p) /\ p[2] >= 2
        /\ At(t, p).k = "date" /\ At(t, p).v \in DigitValues
        /\ p[2] < Len(t[p[1]].fields)
        /\ t[p[1]].fields[p[2] + 1].k = "body" }
BodyEnd(t, l) ==
    IF \E r \in (l + 1)..Len(t) : t[r].row
    THEN (CHOOSE r \in (l + 1)..Len(t) : t[r].row /\ \A s \in (l + 1)..(r - 1) : ~ t[s].row) - 1
    ELSE Len(t)
RECURSIVE SmsGrouped(_, _)
SmsGrouped(t, from) ==
    LET starts == { a \in Positions(t) :
                      /\ a[1] >= from /\ "address" \in KeyEnds(At(t, a).k)
                      /\ DateBodyAfter(t, a) # {} }
    IN  IF starts = {} THEN <<>>
        ELSE LET a    == First(starts)
                 d    == First(DateBodyAfter(t, a))
                 e    == BodyEnd(t, d[1])
                 addr == StripPieces(Span(t, a, d))
                 body == StripPieces(SpanToLine(t, <<d[1], d[2] + 1>>, e))
                 rec  == SmsRecord(addr, Piece(At(t, d).v), body, "1", t[a[1]].src)
             IN  (IF addr # <<>> \/ body # <<>> THEN <<rec>> ELSE <<>>)
                 \o SmsGrouped(t, e + 1)

\* the body of strategy 2 ends in front of `, type=` or with the line
BodyStop(line, b) ==
    IF \E f \in (b + 1)..Len(line.fields) : line.fields[f].k = "type"
    THEN CHOOSE f \in (b + 1)..Len(line.fields) :
            line.fields[f].k = "type" /\ \A g \in (b + 1)..(f - 1) : line.fields[g].k # "type"
    ELSE Len(line.fields) + 1

\* one line under `ka=(.*?),\s*kd=(\d+).*?kb=(.*?)` with the given end of
\* the body: the records (none or one) of re.search
SmsLineMatch(t, l, ka, kd, kb, whole, by) ==
    LET dates(a) == { p \in InLine(t, l) :
                        /\ Before(a, p) /\ At(t, p).k = kd /\ At(t, p).v \in DigitValues
                        /\ \E b \in InLine(t, l) : Before(p, b) /\ kb \in KeyEnds(At(t, b).k) }
        starts == { a \in InLine(t, l) : ka \in KeyEnds(At(t, a).k) /\ dates(a) # {} }
    IN  IF starts = {} THEN <<>>
        ELSE LET a == First(starts)
                 d == First(dates(a))
                 b == First({ p \in InLine(t, l) : Before(d, p) /\ kb \in KeyEnds(At(t, p).k) })
                 body == IF whole
                         THEN Span(t, b, <<l, BodyStop(t[l], b[2])>>)
                         ELSE <<At(t, b).v>>
             IN  << SmsRecord(StripPieces(Span(t, a, d)), Piece(At(t, d).v),
                              StripPieces(body), by, t[l].src) >>

HasKeyEnd(line, word) == \E f \in 1..Len(line.fields) : word \in KeyEnds(line.fields[f].k)

\* strategy 2: line by line
RECURSIVE SmsSingleLine(_, _)
SmsSingleLine(t, l) ==
    IF l > Len(t) THEN <<>>
    ELSE (IF HasKeyEnd(t[l], "address") /\ HasKeyEnd(t[l], "date") /\ HasKeyEnd(t[l], "body")
          THEN SmsLineMatch(t, l, "address", "date", "body", TRUE, "2")
          ELSE <<>>)
         \o SmsSingleLine(t, l + 1)

\* strategy 3: alt_patterns
SmsAltPatterns ==
    << [addr |-> "phone_number", date |-> "date", body |-> "message", by |-> "3.1"],
       [addr |-> "sender", date |-> "timestamp", body |-> "text", by |-> "3.2"],
       [addr |-> "number", date |-> "date_sent", body |-> "body", by |-> "3.3"] >>
RECURSIVE SmsAlternate(_, _, _)
SmsAlternate(t, pat, l) ==
    IF l > Len(t) THEN <<>>
    ELSE SmsLineMatch(t, l, pat.addr, pat.date, pat.body, FALSE, pat.by)
         \o SmsAlternate(t, pat, l + 1)

\* re.findall(r'(\w+)=(.*?)(?:,\s*\w+=|$)', line): the end of each match
\* takes the next key with it, so every second pair is found
PairsFound(line) == { f \in 1..Len(line.fields) : f % 2 = 1 }
\* the dict of the pairs: data.get(key), None as ""
Get(line, lower, key) ==
    LET fs == { f \in PairsFound(line) :
                  (IF lower THEN LowerKey(line.fields[f].k) ELSE line.fields[f].k) = key }
    IN  IF fs = {} THEN ""
        ELSE line.fields[CHOOSE f \in fs : \A g \in fs : g <= f].v
\* a or b or ... or ""
RECURSIVE FirstOf(_, _, _)
FirstOf(line, lower, keys) ==
    IF keys = <<>> THEN ""
    ELSE IF Get(line, lower, Head(keys)) # "" THEN Get(line, lower, Head(keys))
    ELSE FirstOf(line, lower, Tail(keys))

\* Faulty variant of KeepRecord: a record is appended for every line.
KeepRecordAlways(a, b) == TRUE

\* `if addr or body:` / `if number or name:`
KeepRecord(a, b) == a # "" \/ b # ""

\* strategy 4: key=value pairs of the lines that are not blank and do not
\* start with "Row:"
RECURSIVE SmsKeyValue(_, _)
SmsKeyValue(t, l) ==
    IF l > Len(t) THEN <<>>
    ELSE LET addr == FirstOf(t[l], FALSE, <<"address", "phone_number", "sender", "number">>)
             body == FirstOf(t[l], FALSE, <<"body", "message", "text">>)
             date == FirstOf(t[l], FALSE, <<"date", "timestamp", "date_sent">>)
         IN  (IF ~ IsBlank(t[l]) /\ ~ t[l].row /\ KeepRecord(addr, body)
              THEN << SmsRecord(Piece(addr), Piece(date), Piece(body), "4", t[l].src) >>
              ELSE <<>>)
             \o SmsKeyValue(t, l + 1)

(* ---- parse_calls_text --------------------------------------------------- *)
CallRecord(name, number, duration, date, by, line) ==
    [name |-> name, number |-> number, duration_seconds |-> duration,
     date_epoch_ms |-> date, by |-> by, line |-> line]

\* `k1=(.*?),\s*k2=(.*?),\s*k3=(\d+),\s*k4=(\d+)` with IGNORECASE, over the
\* text: the matches of one line from field `from` on ("." stays in a line)
RECURSIVE CallsInLine(_, _, _, _, _)
CallsInLine(t, l, from, ks, by) ==
    LET key(f) == LowerKey(t[l].fields[f].k)
        n      == Len(t[l].fields)
        durs(m) == { d \in (m + 1)..(n - 1) :
                       /\ key(d) = ks[3] /\ t[l].fields[d].v \in DigitValues
                       /\ key(d + 1) = ks[4] /\ t[l].fields[d + 1].v \in DigitValues }
        nums(a) == { m \in (a + 1)..n : key(m) = ks[2] /\ durs(m) # {} }
        starts  == { a \in from..n : ks[1] \in KeyEnds(key(a)) /\ nums(a) # {} }
    IN  IF starts = {} THEN <<>>
        ELSE LET a == CHOOSE x \in starts : \A y \in starts : x <= y
                 m == CHOOSE x \in nums(a) : \A y \in nums(a) : x <= y
                 d == CHOOSE x \in durs(m) : \A y \in durs(m) : x <= y
             IN  << CallRecord(StripPieces(Span(t, <<l, a>>, <<l, m>>)),
                               StripPieces(Span(t, <<l, m>>, <<l, d>>)),
                               Piece(t[l].fields[d].v), Piece(t[l].fields[d + 1].v),
                               by, t[l].src) >>
                 \o CallsInLine(t, l, d + 2, ks, by)
RECURSIVE CallsPattern(_, _, _, _)
CallsPattern(t, l, ks, by) ==
    IF l > Len(t) THEN <<>>
    ELSE CallsInLine(t, l, 1, ks, by) \o CallsPattern(t, l + 1, ks, by)

\* strategy 1; `(?:name|cached_name)=` is found at every key that ends in name
CallsStandard(t) == CallsPattern(t, 1, <<"name", "number", "duration", "date">>, "1")

\* re.search(r'key=(.*?)(?:,|$)') or re.search(r'key=(\d+)') on a line, with
\* IGNORECASE: the value of the first field whose key ends in `word` (and,
\* for \d+, whose value is digits); otherwise the default
Found(line, word, digits, default) ==
    LET fs == { f \in 1..Len(line.fields) :
                  /\ word \in KeyEnds(LowerKey(line.fields[f].k))
                  /\ digits => line.fields[f].v \in DigitValues }
    IN  IF fs = {} THEN default
        ELSE line.fields[CHOOSE f \in fs : \A g \in fs : f <= g].v

\* strategy 2: line by line; the `in` tests are case-sensitive
RECURSIVE CallsLineByLine(_, _)
CallsLineByLine(t, l) ==
    IF l > Len(t) THEN <<>>
    ELSE (IF HasKeyEnd(t[l], "duration") /\ HasKeyEnd(t[l], "date")
          THEN << CallRecord(Piece(Found(t[l], "name", FALSE, "")),
                             Piece(Found(t[l], "number", FALSE, "")),
                             Piece(Found(t[l], "duration", TRUE, "0")),
                             Piece(Found(t[l], "date", TRUE, "")), "2", t[l].src) >>
          ELSE <<>>)
         \o CallsLineByLine(t, l + 1)

\* strategy 3: alt_patterns
CallsAltPatterns ==
    << [ks |-> <<"caller_name", "phone_number", "call_duration", "timestamp">>, by |-> "3.1"],
       [ks |-> <<"contact", "number", "duration", "time">>, by |-> "3.2"] >>

\* strategy 4
RECURSIVE CallsKeyValue(_, _)
CallsKeyValue(t, l) ==
    IF l > Len(t) THEN <<>>
    ELSE LET name   == FirstOf(t[l], TRUE, <<"name", "cached_name", "caller_name", "contact">>)
             number == FirstOf(t[l], TRUE, <<"number", "phone_number", "phone">>)
             dur    == FirstOf(t[l], TRUE, <<"duration", "call_duration">>)
             date   == FirstOf(t[l], TRUE, <<"date", "timestamp", "time">>)
         IN  (IF ~ IsBlank(t[l]) /\ ~ t[l].row /\ KeepRecord(number, name)
              THEN << CallRecord(Piece(name), Piece(number),
                                 Piece(IF dur = "" THEN "0" ELSE dur), Piece(date),
                                 "4", t[l].src) >>
              ELSE <<>>)
             \o CallsKeyValue(t, l + 1)

(* ---- parse_contacts_text ------------------------------------------------ *)
ContactRecord(name, number, line) ==
    [name |-> name, number |-> number, by |-> "1", line |-> line]

\* `[\+\d\s\(\)-]+` after data1=: the value if it is made of these
\* characters; for an empty value at the end of a line that is not the last,
\* the line break
NumberMatches(t, l, f) ==
    \/ t[l].fields[f].v \in NumberValues
    \/ t[l].fields[f].v = "" /\ f = Len(t[l].fields) /\ l < Len(t)

\* `Row:\s*\d+\s+display_name=(.*?),\s*data1=([\+\d\s\(\)-]+)` over raw_text
RECURSIVE ContactsPattern(_, _)
ContactsPattern(t, l) ==
    IF l > Len(t) THEN <<>>
    ELSE LET n  == Len(t[l].fields)
             ms == { f \in 2..n : LowerKey(t[l].fields[f].k) = "data1" /\ NumberMatches(t, l, f) }
         IN  (IF t[l].row /\ n >= 1 /\ LowerKey(t[l].fields[1].k) = "display_name" /\ ms # {}
              THEN LET f == CHOOSE x \in ms : \A y \in ms : x <= y
                   IN  << ContactRecord(StripPieces(Span(t, <<l, 1>>, <<l, f>>)),
                                        Piece(t[l].fields[f].v), t[l].src) >>
              ELSE <<>>)
             \o ContactsPattern(t, l + 1)

(* ---- the strategies in the order of the code --------------------------- *)
Stages(p) ==
    IF p = "sms" THEN <<"1", "2", "3.1", "3.2", "3.3", "4">>
    ELSE IF p = "calls" THEN <<"1", "2", "3.1", "3.2", "4">>
    ELSE <<"1">>

\* the records one strategy (one pattern of strategy 3) finds in the text
StageRecords(p, stage, t) ==
    IF p = "sms"
    THEN CASE stage = "1" -> SmsGrouped(t, 1)
           [] stage = "2" -> SmsSingleLine(t, 1)
           [] stage = "3.1" -> SmsAlternate(t, SmsAltPatterns[1], 1)
           [] stage = "3.2" -> SmsAlternate(t, SmsAltPatterns[2], 1)
           [] stage = "3.3" -> SmsAlternate(t, SmsAltPatterns[3], 1)
           [] OTHER -> SmsKeyValue(t, 1)
    ELSE IF p = "calls"
    THEN CASE stage = "1" -> CallsStandard(t)
           [] stage = "2" -> CallsLineByLine(t, 1)
           [] stage = "3.1" -> CallsPattern(t, 1, CallsAltPatterns[1].ks, "3.1")
           [] stage = "3.2" -> CallsPattern(t, 1, CallsAltPatterns[2].ks, "3.2")
           [] OTHER -> CallsKeyValue(t, 1)
    ELSE ContactsPattern(t, 1)

\* Faulty variant of ReturnsNow: the parser goes through all its strategies.
ReturnsNowAtTheEnd(p, k, results) == k = Len(Stages(p))

\* `if results: return results` after a strategy; the last one returns always
ReturnsNow(p, k, results) == results # <<>> \/ k = Len(Stages(p))

NotParsed == [returned |-> FALSE, records |-> <<>>]
Parsed(rs) == [returned |-> TRUE, records |-> rs]

ParseIdle ==
    /\ parser = "none"
    /\ raw_text = <<>>
    /\ ppc = "idle"
    /\ pstage = 1
    /\ ptext = <<>>
    /\ presults = <<>>
    /\ pret = NotParsed

\* a call of one of the three parsers
ParseInit ==
    /\ parser \in {"sms", "contacts", "calls"}
    /\ raw_text \in Texts(parser)
    /\ ppc = "start"
    /\ pstage = 1
    /\ ptext = <<>>
    /\ presults = <<>>
    /\ pret = NotParsed

\* the head of a parser: `if not raw_text: return results`; parse_sms_text
\* and parse_calls_text then drop the metadata lines and return on a blank
\* text; parse_contacts_text keeps raw_text as it is
ParseHead ==
    /\ ppc = "start"
    /\ IF IsEmptyText(raw_text)
       THEN /\ pret' = Parsed(presults)
            /\ ppc' = "done"
            /\ UNCHANGED ptext
       ELSE IF parser = "contacts"
       THEN /\ ptext' = Numbered(raw_text)
            /\ ppc' = "strategy"
            /\ UNCHANGED pret
       ELSE /\ ptext' = SkipMetadata(raw_text)
            /\ IF IsBlankText(SkipMetadata(raw_text))
               THEN pret' = Parsed(presults) /\ ppc' = "done"
               ELSE ppc' = "strategy" /\ UNCHANGED pret
    /\ UNCHANGED <<parser, raw_text, pstage, presults>>
    /\ UNCHANGED <<queryVars, extractVars, archiveVars, fullVars, adbVars, guiVars,
                   sessionVars, epochVars>>

\* one strategy (one pattern of strategy 3): its records are appended to
\* results, and `if results: return results`
ParseStrategy ==
    /\ ppc = "strategy"
    /\ LET rs == presults \o StageRecords(parser, Stages(parser)[pstage], ptext)
       IN  /\ presults' = rs
           /\ IF ReturnsNow(parser, pstage, rs)
              THEN pret' = Parsed(rs) /\ ppc' = "done" /\ UNCHANGED pstage
              ELSE pstage' = pstage + 1 /\ UNCHANGED <<pret, ppc>>
    /\ UNCHANGED <<parser, raw_text, ptext>>
    /\ UNCHANGED <<queryVars, extractVars, archiveVars, fullVars, adbVars, guiVars,
                   sessionVars, epochVars>>

ParseNext ==
    \/ ParseHead
    \/ ParseStrategy

(* ---- Properties of the parsers ----------------------------------------- *)
\* the strategies (patterns) that find a record in the text
Yielding(p, t) == { k \in 1..Len(Stages(p)) : StageRecords(p, Stages(p)[k], t) # <<>> }

\* C21: parse_sms_text and parse_calls_text return the records of the first
\* strategy, in the order of the code (within strategy 3: of the first
\* pattern), that finds a record, and stop there; the records of one result
\* all come from one strategy and pattern.
C21_FirstYieldingStrategy ==
    (ppc = "done" /\ parser \in {"sms", "calls"}) =>
        /\ IF Yielding(parser, ptext) = {}
           THEN pret.records = <<>>
           ELSE LET k == CHOOSE x \in Yielding(parser, ptext) :
                            \A y \in Yielding(parser, ptext) : x <= y
                IN  /\ pret.records = StageRecords(parser, Stages(parser)[k], ptext)
                    /\ pstage = k
        /\ \A i, j \in 1..Len(pret.records) : pret.records[i].by = pret.records[j].by

\* a text in which the second strategy finds a record and a later pattern
\* would find one too
C21_Witness ==
    /\ ppc = "done" /\ parser \in {"sms", "calls"}
    /\ pstage = 2 /\ pret.records # <<>>
    /\ \E k \in Yielding(parser, ptext) : k > 2

\* C22: no returned record starts in a line of raw_text that begins with
\* '#', and no strategy sees such a line.
C22_CommentLinesDiscarded ==
    /\ \A l \in 1..Len(ptext) : ~ ptext[l].hash
    /\ ppc = "done" => \A i \in 1..Len(pret.records) : ~ raw_text[pret.records[i].line].hash

\* the keys the patterns of a parser look for
Markers(p) ==
    IF p = "sms"
    THEN {"address", "date", "body", "type", "phone_number", "message", "sender",
          "timestamp", "text", "number", "date_sent"}
    ELSE IF p = "calls"
    THEN {"name", "cached_name", "number", "duration", "date", "caller_name",
          "phone_number", "call_duration", "timestamp", "contact", "time", "phone"}
    ELSE {"display_name", "data1"}
MarkerFree(p, raw) ==
    \A l \in 1..Len(raw) : \A f \in 1..Len(raw[l].fields) :
        KeyEnds(LowerKey(raw[l].fields[f].k)) \cap Markers(p) = {}

\* C23: on a text without any of the keys a parser looks for, the parser
\* makes no record at any point and returns the empty list.
C23_MarkerFreeIsEmpty ==
    MarkerFree(parser, raw_text) =>
        /\ presults = <<>>
        /\ ppc = "done" => pret = Parsed(<<>>)

\* a text of prose and of an unknown key=value pair has gone through all the
\* strategies of parse_sms_text or parse_calls_text
C23_Witness ==
    /\ ppc = "done" /\ parser \in {"sms", "calls"}
    /\ MarkerFree(parser, raw_text)
    /\ pstage = Len(Stages(parser))
    /\ \E l \in 1..Len(raw_text) : raw_text[l].fields # <<>>
    /\ \E l \in 1..Len(raw_text) : raw_text[l].prose # "" /\ ~ raw_text[l].hash
    /\ pret = Parsed(<<>>)

(***************************************************************************)
(* epoch_ms_to_str, and the date fields of a parsed record.  Integers of   *)
(* this part are decimal numerals (sequences of digits, without leading    *)
(* zeros once converted): epoch milliseconds do not fit the integers of    *)
(* the model checker.  A formatted time is kept as the instant it shows    *)
(* (whole seconds since the epoch) and the unit the argument was read in;  *)
(* the limits are those of datetime in UTC.                                *)
(***************************************************************************)
DigitChars == { Digits[k] : k \in 1..10 }
DigitValue(c) == (CHOOSE k \in 1..10 : Digits[k] = c) - 1

\* a numeral the model hands to the function: seconds that datetime can
\* show, seconds beyond year 9999, milliseconds it can show, milliseconds
\* beyond year 9999
SecondsNumerals == { <<"0">>, <<"5">>, <<"1", "7", "0", "0", "0", "0", "0", "0", "0", "0">>, <<"2", "5", "3", "4", "0", "2", "3", "0", "0", "7", "9", "9">> }
SecondsTooLate == { <<"2", "5", "3", "4", "0", "2", "3", "0", "0", "8", "0", "0">>, <<"9", "9", "9", "9", "9", "9", "9", "9", "9", "9", "9", "9">>, <<"1", "0", "0", "0", "0", "0", "0", "0", "0", "0", "0", "0", "0">> }
MillisNumerals == { <<"1", "0", "0", "0", "0", "0", "0", "0", "0", "0", "0", "0", "1">>, <<"1", "7", "0", "0", "0", "0", "0", "0", "0", "0", "9", "9", "9">>, <<"2", "5", "3", "4", "0", "2", "3", "0", "0", "7", "9", "9", "9", "9", "9">> }
MillisTooLate == { <<"2", "5", "3", "4", "0", "2", "3", "0", "0", "8", "0", "0", "0", "0", "0">>, <<"9", "9", "9", "9", "9", "9", "9", "9", "9", "9", "9", "9", "9", "9", "9", "9", "9", "9", "9", "9">> }
Numerals == SecondsNumerals \cup SecondsTooLate \cup MillisNumerals \cup MillisTooLate
\* negative seconds datetime can show (back to year 1)
NegativeShown == { <<"5">>, <<"1", "7", "0", "0", "0", "0", "0", "0", "0", "0">> }

\* what is written before and after the numeral: a leading zero, blanks and
\* a minus sign leave it an integer literal, a fraction does not
NumeralPrefixes == { <<>>, <<"0">>, <<" ">>, <<"-">> }
NumeralSuffixes == { [text |-> <<>>, literal |-> TRUE], [text |-> <<" ">>, literal |-> TRUE],
                     [text |-> <<".", "5">>, literal |-> FALSE] }

\* arguments of epoch_ms_to_str: strings, and None.  literal, neg and
\* numeral say how a string was built.
EpochInputs ==
    { [type |-> "str", text |-> p \o n \o q.text, literal |-> q.literal,
       neg |-> (p = <<"-">> /\ n # <<"0">>), numeral |-> n] :
        p \in NumeralPrefixes, n \in Numerals, q \in NumeralSuffixes }
    \cup
    { [type |-> "str", text |-> t, literal |-> FALSE, neg |-> FALSE, numeral |-> <<>>] :
        t \in { <<>>, <<"y", "e", "s", "t", "e", "r", "d", "a", "y">>, <<"1", "2", "a">> } }
    \cup
    { [type |-> "None", text |-> <<>>, literal |-> FALSE, neg |-> FALSE, numeral |-> <<>>] }

\* a value bound to `ms`: the argument, or the int made of it
StrValue(text) == [type |-> "str", neg |-> FALSE, text |-> text]
IntValue(neg, digits) == [type |-> "int", neg |-> neg, text |-> digits]
NoneValue == [type |-> "None", neg |-> FALSE, text |-> <<>>]

\* str(ms)
Str(v) ==
    IF v.type = "None" THEN <<"N", "o", "n", "e">>
    ELSE IF v.type = "int" /\ v.neg THEN <<"-">> \o v.text
    ELSE v.text

IsDigits(t) == t # <<>> /\ \A k \in 1..Len(t) : t[k] \in DigitChars
RECURSIVE StripZeros(_)
StripZeros(ds) == IF Len(ds) > 1 /\ Head(ds) = "0" THEN StripZeros(Tail(ds)) ELSE ds

\* int(ms): an int for a string that is blanks, an optional sign, digits and
\* blanks; ValueError for any other string and TypeError for None (ok FALSE)
IntOf(v) ==
    LET t      == Strip(v.text)
        signed == t # <<>> /\ Head(t) \in {"+", "-"}
        body   == IF signed THEN Tail(t) ELSE t
    IN  IF v.type = "str" /\ IsDigits(body)
        THEN [ok |-> TRUE,
              value |-> IntValue(signed /\ Head(t) = "-" /\ StripZeros(body) # <<"0">>,
                                 StripZeros(body))]
        ELSE [ok |-> FALSE, value |-> v]

\* a > b for numerals without leading zeros
RECURSIVE LexGreater(_, _)
LexGreater(a, b) ==
    IF a = <<>> THEN FALSE
    ELSE IF Head(a) # Head(b) THEN DigitValue(Head(a)) > DigitValue(Head(b))
    ELSE LexGreater(Tail(a), Tail(b))
NatGreater(a, b) == Len(a) > Len(b) \/ (Len(a) = Len(b) /\ LexGreater(a, b))

TenTo12 == <<"1", "0", "0", "0", "0", "0", "0", "0", "0", "0", "0", "0", "0">>
\* datetime.max and datetime.min as seconds from the epoch
MaxSeconds == <<"2", "5", "3", "4", "0", "2", "3", "0", "0", "7", "9", "9">>
MinSecondsMagnitude == <<"6", "2", "1", "3", "5", "5", "9", "6", "8", "0", "0">>

\* `if ms > 10**12`
IsMillis(v) == ~ v.neg /\ NatGreater(v.text, TenTo12)

\* the whole seconds of ms / 1000.0
WholeSeconds(ds) == IF Len(ds) > 3 THEN SubSeq(ds, 1, Len(ds) - 3) ELSE <<"0">>

Date(unit, neg, secs) == [kind |-> "date", unit |-> unit, neg |-> neg, value |-> secs]
Text(t) == [kind |-> "text", unit |-> "", neg |-> FALSE, value |-> t]
NotReturnedYet == [kind |-> "pending", unit |-> "", neg |-> FALSE, value |-> <<>>]

\* datetime.fromtimestamp(...).strftime(...) on the int bound to ms: the
\* formatted time, or the exception (raises TRUE) for an instant outside
\* year 1..9999.  A negative instant inside the range is shown on some
\* platforms and raises OSError on others.
FormatOutcomes(v) ==
    LET unit == IF IsMillis(v) THEN "ms" ELSE "s"
        secs == IF IsMillis(v) THEN WholeSeconds(v.text) ELSE v.text
        shown == [raises |-> FALSE, date |-> Date(unit, v.neg, secs)]
        fails == [raises |-> TRUE, date |-> NotReturnedYet]
    IN  IF v.neg
        THEN IF NatGreater(secs, MinSecondsMagnitude) THEN {fails} ELSE {shown, fails}
        ELSE IF NatGreater(secs, MaxSeconds) THEN {fails} ELSE {shown}

NoRecord == [state |-> "none", date_epoch_ms |-> <<>>, date |-> NotReturnedYet]

EpochIdle ==
    /\ eraw = NoneValue
    /\ ems = NoneValue
    /\ epc = "idle"
    /\ eret = NotReturnedYet
    /\ erecord = NoRecord
    /\ einput = [type |-> "None", text |-> <<>>, literal |-> FALSE, neg |-> FALSE,
                 numeral |-> <<>>]

\* a call of epoch_ms_to_str (epc = "convert"), or a parser about to build
\* a record from the date it captured, which is a string (epc = "record")
EpochInit ==
    /\ einput \in EpochInputs
    /\ eraw = [type |-> einput.type, neg |-> FALSE, text |-> einput.text]
    /\ ems = eraw
    /\ epc \in IF einput.type = "str" THEN {"convert", "record"} ELSE {"convert"}
    /\ eret = NotReturnedYet
    /\ erecord = IF epc = "record"
                 THEN [NoRecord EXCEPT !.state = "building"] ELSE NoRecord

\* the parsers: `"date": epoch_ms_to_str(date_ms) if date_ms else "Unknown"`
RecordDate ==
    /\ epc = "record"
    /\ IF eraw.text = <<>>
       THEN /\ erecord' = [state |-> "built", date_epoch_ms |-> eraw.text,
                           date |-> Text(<<"U", "n", "k", "n", "o", "w", "n">>)]
            /\ epc' = "done"
       ELSE /\ epc' = "convert"
            /\ UNCHANGED erecord
    /\ UNCHANGED <<einput, eraw, ems, eret>>
    /\ UNCHANGED <<queryVars, extractVars, archiveVars, fullVars, adbVars, guiVars,
                   sessionVars, parseVars>>

\* `ms = int(ms)`; on ValueError or TypeError the except clause returns str(ms)
EpochConvert ==
    /\ epc = "convert"
    /\ IF IntOf(ems).ok
       THEN /\ ems' = IntOf(ems).value
            /\ epc' = "format"
            /\ UNCHANGED eret
       ELSE /\ eret' = Text(Str(ems))
            /\ epc' = "returned"
            /\ UNCHANGED ems
    /\ UNCHANGED <<einput, eraw, erecord>>
    /\ UNCHANGED <<queryVars, extractVars, archiveVars, fullVars, adbVars, guiVars,
                   sessionVars, parseVars>>

\* fromtimestamp and strftime; on an exception the except clause returns
\* str(ms), ms being the int by now
EpochFormat ==
    /\ epc = "format"
    /\ \E o \in FormatOutcomes(ems) :
          eret' = IF o.raises THEN Text(Str(ems)) ELSE o.date
    /\ epc' = "returned"
    /\ UNCHANGED <<einput, eraw, ems, erecord>>
    /\ UNCHANGED <<queryVars, extractVars, archiveVars, fullVars, adbVars, guiVars,
                   sessionVars, parseVars>>

\* the parsers: the record dict, with "date_epoch_ms": date_ms
RecordBuilt ==
    /\ epc = "returned"
    /\ erecord.state = "building"
    /\ erecord' = [state |-> "built", date_epoch_ms |-> eraw.text, date |-> eret]
    /\ epc' = "done"
    /\ UNCHANGED <<einput, eraw, ems, eret>>
    /\ UNCHANGED <<queryVars, extractVars, archiveVars, fullVars, adbVars, guiVars,
                   sessionVars, parseVars>>

EpochNext ==
    \/ RecordDate
    \/ EpochConvert
    \/ EpochFormat
    \/ RecordBuilt

(***************************************************************************)
(* Properties of the query fallback engine (checked under SpecQuery)       *)
(***************************************************************************)
NumCombinations == Len(uri_variants) * Len(projection_variants)

\* the k-th combination of the URI x projection order, first URI first
RowMajor(k) ==
    <<uri_variants[((k - 1) \div Len(projection_variants)) + 1],
      projection_variants[((k - 1) % Len(projection_variants)) + 1]>>

AttemptPairs == [k \in 1..Len(attempts) |-> <<attempts[k].uri, attempts[k].projection>>]

\* C3: the attempts are made in row-major order (all projections of the first
\* URI before any of the next), one transport call each carrying exactly that
\* combination, and no attempt follows one classified as success; the engine
\* returns only after a success or after the last combination.  With [u1,u2] x
\* [p1,p2] and a transport that fails (u1,p1), (u1,p2) and answers (u2,p1)
\* well, exactly these three attempts are made and (True, _, u2, p1) returned.
C3_RowMajorPrefix ==
    /\ Len(attempts) <= NumCombinations
    /\ \A k \in 1..Len(attempts) :
          /\ AttemptPairs[k] = RowMajor(k)
          /\ attempts[k].args = QueryArgs(RowMajor(k)[1], RowMajor(k)[2])
          /\ (k < Len(attempts) => ~ attempts[k].success)
    /\ qpc = "done" =>
          \/ (attempts # <<>> /\ attempts[Len(attempts)].success /\ qret.success)
          \/ (Len(attempts) = NumCombinations /\ ~ qret.success)
    /\ ( /\ qpc = "done"
         /\ uri_variants = <<"u1", "u2">>
         /\ projection_variants = <<"p1", "p2">>
         /\ Len(attempts) >= 3
         /\ attempts[1].bad /\ attempts[2].bad /\ ~ attempts[3].bad )
       => /\ AttemptPairs = << <<"u1", "p1">>, <<"u1", "p2">>, <<"u2", "p1">> >>
          /\ qret.success
          /\ qret.uri_used = "u2"
          /\ qret.projection_used = "p1"

C3_Witness ==
    /\ qpc = "done"
    /\ uri_variants = <<"u1", "u2">>
    /\ projection_variants = <<"p1", "p2">>
    /\ Len(attempts) = 3
    /\ attempts[1].bad /\ attempts[2].bad /\ ~ attempts[3].bad
    /\ qret.success /\ qret.uri_used = "u2" /\ qret.projection_used = "p1"

\* C4: a returned success carries a non-None uri_used and projection_used,
\* which are the combination of the attempt made last in this call, and its
\* raw text is the transport's answer to that attempt.
C4_SuccessNamesAttempt ==
    (qpc = "done" /\ qret.success) =>
        /\ qret.uri_used # None
        /\ qret.projection_used # None
        /\ attempts # <<>>
        /\ <<qret.uri_used, qret.projection_used>> = AttemptPairs[Len(attempts)]
        /\ attempts[Len(attempts)].success
        /\ qret.raw = AnswerText(stub)

C4_Witness ==
    /\ qpc = "done"
    /\ qret.success
    /\ Len(attempts) = 6
    /\ qret.uri_used = "content://sms/inbox"
    /\ qret.projection_used = ""
    /\ qret.raw # <<>>

\* C5: when every attempt was classified as failure, the engine has tried
\* each of the |uri_variants| * |projection_variants| combinations and
\* returns (False, "All <label> query attempts failed.", None, None); the
\* text is not empty and names the label.
C5_AllFailedResult ==
    (qpc = "done" /\ \A k \in 1..Len(attempts) : ~ attempts[k].success) =>
        /\ Len(attempts) = NumCombinations
        /\ ~ qret.success
        /\ qret.raw = <<"A", "l", "l", " ">> \o label \o <<" ", "q", "u", "e", "r", "y", " ", "a", "t", "t", "e", "m", "p", "t", "s", " ", "f", "a", "i", "l", "e", "d", ".">>
        /\ qret.raw # <<>>
        /\ Contains(qret.raw, label)
        /\ qret.uri_used = None
        /\ qret.projection_used = None

C5_Witness ==
    /\ qpc = "done"
    /\ ~ qret.success
    /\ Len(attempts) = 9
    /\ \A k \in 1..Len(attempts) : ~ attempts[k].success
    /\ label = Label_SMS

\* C6: an attempt is classified as failure exactly when the transport's
\* answer is empty or holds one of the nine markers in any letter case; an
\* answer that is data around a marker is a failure too, a near miss of a
\* marker is not.
C6_ClassifiedByMarkers ==
    \A k \in 1..Len(attempts) : (~ attempts[k].success) <=> attempts[k].bad

C6_Witness ==
    /\ attempts # <<>>
    /\ ~ attempts[Len(attempts)].success
    /\ stub.marker
    /\ stub.pre # <<>>
    /\ stub.body = <<"D", "e", "n", "i", "e", "d">>
    /\ result = stub.pre \o stub.body \o stub.post

\* the strings run_adb can return from its except branches
RunAdbFailureTexts ==
    {TimedOutText, NotFoundText} \cup { AdbErrorPrefix \o t : t \in ExceptionTexts }

\* C25: an attempt whose transport call failed (its answer is one of the
\* three failure strings of run_adb) is classified as a failure, and the
\* engine never returns such an answer as its successful result.
C25_TransportFailureNeverSuccess ==
    /\ \A a \in TransportFailures : AnswerText(a) \in RunAdbFailureTexts
    /\ (attempts # <<>> /\ stub.transport) => ~ attempts[Len(attempts)].success
    /\ qret.success => qret.raw \notin RunAdbFailureTexts

(***************************************************************************)
(* Properties of the scan and of the extraction (checked under SpecExtract)*)
(***************************************************************************)
ScanRunning == op = "brute" /\ pc \in {"scan", "probe"}
ScanFinished == op = "brute" /\ pc \in {"extract", "done"}

\* C1: brute_scan_fs terminates on every finite tree, also on one with a
\* self-referential entry.  A finite run shows it in this form: a visited path
\* names a directory reached from the start directory through one directory
\* per name, so on a tree of D directories a terminating scan visits no path
\* of D or more names.  Such a path has passed through one directory twice,
\* the names between the two passes lead from that directory back to it, and
\* the scan then lists it again at a longer path each time, without end.
C1_ScanTerminates ==
    op = "brute" => \A p \in visited : Len(p) < Cardinality(DirNodes)

IsLsCall(c) == c.cmd = "ls"

\* C2: in one brute_scan_fs run no path is listed twice, each visited path
\* was listed exactly once, and popping a path that is already visited issues
\* no shell call and leaves the visited set as it is.
C2_VisitedAtMostOnce ==
    /\ [](op = "brute" =>
            /\ \A i, k \in 1..Len(calls) :
                  (IsLsCall(calls[i]) /\ IsLsCall(calls[k])
                     /\ calls[i].path = calls[k].path) => i = k
            /\ Len(SelectSeq(calls, IsLsCall)) = Cardinality(visited)
            /\ \A k \in 1..Len(calls) :
                  IsLsCall(calls[k]) => calls[k].path \in visited)
    /\ [][(ScanRunning /\ pc = "scan" /\ stack # <<>> /\ Last(stack) \in visited)
            => (calls' = calls /\ visited' = visited /\ discovered' = discovered)]_vars

C2_Witness ==
    /\ op = "brute"
    /\ pc = "done"
    /\ skipped # <<>>
    /\ Cardinality(visited) >= 2
    /\ \A k \in 1..Len(skipped) : skipped[k] \in visited

IsLeaf(d) == ~ d.is_dir
LeafPathsOf(items) ==
    [k \in 1..Len(SelectSeq(items, IsLeaf)) |-> SelectSeq(items, IsLeaf)[k].path]
ManifestPaths == [k \in 1..Len(manifest) |-> manifest[k].remote_path]

\* C7: the manifest of brute_extract_folder holds one entry for each
\* discovered entry that is not a directory, in discovery order, whether the
\* pull left a local file or not, and no entry for a discovered directory.
C7_ManifestPerLeaf ==
    ScanFinished =>
        /\ ManifestPaths = LeafPathsOf(SubSeq(discovered, 1, fidx - 1))
        /\ (pc = "done" => ManifestPaths = LeafPathsOf(discovered))

C7_Witness ==
    /\ op = "brute"
    /\ pc = "done"
    /\ Len(manifest) >= 2
    /\ \E k \in 1..Len(discovered) : discovered[k].is_dir
    /\ \E k \in 1..Len(manifest) : observed[k].local.kind = "absent"
    /\ \E k \in 1..Len(manifest) : observed[k].local.kind = "file"

AllNull(h) == h.md5 = NoDigest /\ h.sha1 = NoDigest /\ h.sha256 = NoDigest
NoneNull(h) == h.md5 # NoDigest /\ h.sha1 # NoDigest /\ h.sha256 # NoDigest

\* C8: in every manifest entry of an extraction the three digests are all
\* None only if the local path does not exist after the pull; when the local
\* path exists the entry carries digests.
C8_NullDigestsOnlyIfAbsent ==
    \A k \in 1..Len(manifest) :
        /\ AllNull(manifest[k].hashes) => observed[k].local.kind = "absent"
        /\ observed[k].local.kind # "absent" => NoneNull(manifest[k].hashes)

IsEmptyFile(st) == st.kind = "file" /\ st.bytes = <<>>

\* C9 as stated: after a pull that left the local file absent or empty (zero
\* bytes) the entry has all three digests None and carries the transport's text.
C9_AbsentOrEmptyGivesNullDigests ==
    \A k \in 1..Len(manifest) :
        (observed[k].local.kind = "absent" \/ IsEmptyFile(observed[k].local)) =>
            /\ AllNull(manifest[k].hashes)
            /\ manifest[k].adb_result = observed[k].text

\* C9 as amended: after a pull that left the local path absent the entry has
\* all three digests None, size 0, and carries the transport's text; after a
\* pull that left a zero-byte file the entry carries the transport's text and
\* the three digests of the empty content; in both cases the extraction goes
\* on, and the finished manifest holds an entry for every leaf (every listed
\* item, for pull_folder_with_metadata).
C9_AbsentGivesNullDigests ==
    /\ \A k \in 1..Len(manifest) :
          /\ observed[k].local.kind = "absent" =>
                /\ AllNull(manifest[k].hashes)
                /\ manifest[k].size = 0
                /\ manifest[k].adb_result = observed[k].text
          /\ IsEmptyFile(observed[k].local) =>
                /\ manifest[k].hashes.md5 = <<"md5", <<>> >>
                /\ manifest[k].hashes.sha1 = <<"sha1", <<>> >>
                /\ manifest[k].hashes.sha256 = <<"sha256", <<>> >>
                /\ manifest[k].size = 0
                /\ manifest[k].adb_result = observed[k].text
    /\ (op = "brute" /\ pc = "done") =>
          Len(manifest) = Len(SelectSeq(discovered, IsLeaf))
    /\ (op = "folder" /\ pc = "done" /\ ret = "manifest") =>
          Len(manifest) = Len(device[RootDir].lines)

C9_Witness ==
    /\ pc = "done"
    /\ Len(manifest) >= 2
    /\ observed[1].local.kind = "absent"
    /\ observed[1].text = "adb command timed out."
    /\ AllNull(manifest[1].hashes)
    /\ observed[2].local.kind = "file"
    /\ NoneNull(manifest[2].hashes)

\* the children of a path as the device holds them: none for a directory
\* that is empty, cannot be read or is reported missing
EmptyListing(path) ==
    device[Resolve(path)].lines \in { <<>>, <<DeniedLine>>, <<NoSuchLine>> }
ChildNames(path) ==
    IF EmptyListing(path) THEN <<>> ELSE device[Resolve(path)].lines
ChildIsDir(path, name) == Resolve(Append(path, name)) \in DirNodes

\* C16 as stated: a child whose name starts with "." or holds " -> " is
\* handled like any other, so that after the scan every listed child of a
\* visited directory is in the discovery output, as a directory if the
\* directory test says so and as a leaf otherwise.
C16_EveryChildDiscovered ==
    ScanFinished =>
        \A p \in visited : \A k \in 1..Len(ChildNames(p)) :
            \E i \in 1..Len(discovered) :
                /\ discovered[i].path = Append(p, ChildNames(p)[k])
                /\ discovered[i].is_dir = ChildIsDir(p, ChildNames(p)[k])

IsDirTestCall(c) == c.cmd = "test-d"
IsScanCall(c) == c.cmd \in {"ls", "test-d"}

\* C17: popping an unvisited path whose listing is empty (no output, a
\* missing path, a permission denial) issues the listing call and nothing
\* else: no entry is recorded, what was discovered is kept, no result is
\* returned, and the scan goes on with the rest of the stack.  No directory
\* test is ever issued, and no entry ever recorded, for a child of such a path.
C17_EmptyListingEndsBranch ==
    /\ [](op = "brute" =>
            /\ \A k \in 1..Len(calls) :
                  IsDirTestCall(calls[k]) => ~ EmptyListing(Front(calls[k].path))
            /\ \A k \in 1..Len(discovered) :
                  ~ EmptyListing(Front(discovered[k].path)))
    /\ [][(/\ op = "brute" /\ pc = "scan" /\ stack # <<>>
           /\ Last(stack) \notin visited
           /\ EmptyListing(Last(stack)))
          => /\ discovered' = discovered
             /\ calls' = Append(calls, LsCall(Last(stack)))
             /\ stack' = Front(stack)
             /\ visited' = visited \cup {Last(stack)}
             /\ pc' = "scan"
             /\ ret' = ret]_vars

C17_Witness ==
    /\ op = "brute"
    /\ pc = "done"
    /\ device[SubDir].lines = <<DeniedLine>>
    /\ \E p \in visited : p # Root /\ Resolve(p) = SubDir
    /\ Len(discovered) = 2
    /\ Len(manifest) = 1

RECURSIVE SumChildren(_)
SumChildren(paths) ==
    IF paths = {} THEN 0
    ELSE LET p == CHOOSE x \in paths : TRUE
         IN  Len(ChildNames(p)) + SumChildren(paths \ {p})

DiscoveredDirs == { discovered[k].path : k \in { i \in 1..Len(discovered) : discovered[i].is_dir } }

\* C18: a finished scan has issued one listing call for each visited path,
\* the visited paths being the root and the paths classified as directories,
\* and one directory test for each child name these listings returned, each
\* for the full path of that child; the shell calls of the scan number
\* (visited paths) + (listed children).
C18_ScanCallCount ==
    ScanFinished =>
        /\ visited = {Root} \cup DiscoveredDirs
        /\ Len(SelectSeq(calls, IsLsCall)) = Cardinality(visited)
        /\ \A p \in visited :
              Cardinality({ k \in 1..Len(calls) : calls[k] = LsCall(p) }) = 1
        /\ Len(SelectSeq(calls, IsDirTestCall)) = SumChildren(visited)
        /\ \A p \in visited : \A nm \in Names :
              Cardinality({ k \in 1..Len(calls) : calls[k] = DirCall(Append(p, nm)) })
                = Cardinality({ k \in 1..Len(ChildNames(p)) : ChildNames(p)[k] = nm })
        /\ Len(SelectSeq(calls, IsScanCall)) = Cardinality(visited) + SumChildren(visited)

C18_Witness ==
    /\ op = "brute"
    /\ pc = "extract"
    /\ fidx = 1
    /\ Cardinality(visited) = 2
    /\ SumChildren(visited) = 4
    /\ Len(calls) = 6
    /\ \E k \in 1..Len(calls) :
          IsDirTestCall(calls[k]) /\ HiddenOrLink(Last(calls[k].path))
                                  /\ ~ ChildIsDir(Front(calls[k].path), Last(calls[k].path))

\* the names the device itself printed for the children of a path
ActuallyListed(path) ==
    IF Resolve(path) \in DirNodes /\ device[Resolve(path)] # TimedOutListing
    THEN { device[Resolve(path)].lines[k] : k \in 1..Len(device[Resolve(path)].lines) }
    ELSE {}

\* C26: every path brute_scan_fs records, and every file pulled after it, is
\* the root followed by names the device listed; the text run_adb returns
\* for a failed transport call is never a name in such a path.
C26_OnlyListedNames ==
    op = "brute" =>
        /\ \A k \in 1..Len(discovered) :
              /\ Last(discovered[k].path) \in ActuallyListed(Front(discovered[k].path))
              /\ \A i \in 1..Len(discovered[k].path) :
                    discovered[k].path[i] \notin RunAdbFailureTexts
        /\ \A k \in 1..Len(calls) : \A i \in 1..Len(calls[k].path) :
              calls[k].path[i] \notin RunAdbFailureTexts

\* no listing of the device holds a name twice
NoRepeatedNames ==
    \A n \in DirNodes : \A i, k \in 1..Len(device[n].lines) :
        device[n].lines[i] = device[n].lines[k] => i = k

\* C28: on a device whose listings hold no name twice, the discovery list
\* of brute_scan_fs holds no path twice, and the parent of every entry is
\* the root or an entry recorded earlier as a directory.
C28_NoDuplicateParentFirst ==
    (op = "brute" /\ NoRepeatedNames) =>
        /\ \A i, k \in 1..Len(discovered) :
              discovered[i].path = discovered[k].path => i = k
        /\ \A k \in 1..Len(discovered) :
              \/ Front(discovered[k].path) = Root
              \/ \E i \in 1..(k - 1) :
                    /\ discovered[i].path = Front(discovered[k].path)
                    /\ discovered[i].is_dir

C28_Witness ==
    /\ op = "brute"
    /\ pc = "done"
    /\ NoRepeatedNames
    /\ Len(discovered) = 3
    /\ Len(device[SubDir].lines) = 2
    /\ device[RootDir].to[NameHidden] = SubDir
    /\ device[RootDir].to[NamePlain] = FileNode
    /\ \A nm \in Names : device[SubDir].to[nm] = FileNode
    /\ \E k \in 1..Len(discovered) : Len(discovered[k].path) = 2

(***************************************************************************)
(* Properties of the archive (checked under SpecArchive).  The reader      *)
(* below is the one the container format asks for: it has the bytes of     *)
(* output_bin and nothing else.                                            *)
(***************************************************************************)
Take(bytes, n) == SubSeq(bytes, 1, IF n < Len(bytes) THEN n ELSE Len(bytes))
Drop(bytes, n) == SubSeq(bytes, (IF n < Len(bytes) THEN n ELSE Len(bytes)) + 1, Len(bytes))

\* an unsigned little-endian integer; a value beyond 65535 reads as 65536,
\* more than any container of the model holds
RECURSIVE ReadLE(_)
ReadLE(bytes) ==
    IF bytes = <<>> THEN 0
    ELSE IF ReadLE(Tail(bytes)) >= 256 THEN 65536
    ELSE Head(bytes) + 256 * ReadLE(Tail(bytes))

ReadMagic == Take(out, 8)
ReadManifestLength == ReadLE(SubSeq(Drop(out, 8), 1, IF Len(out) >= 16 THEN 8 ELSE 0))
ReadManifestJson == Take(Drop(out, 16), ReadManifestLength)
ReadPayload == Drop(Drop(out, 16), ReadManifestLength)

\* the sizes of the entries of a rendered manifest, in order: the digits
\* between each ":" and the "}" that follows it.  num is -1 outside a number.
RECURSIVE DecodeSizes(_, _, _)
DecodeSizes(json, num, sizes) ==
    IF json = <<>> THEN sizes
    ELSE IF Head(json) = 58 THEN DecodeSizes(Tail(json), 0, sizes)
    ELSE IF num >= 0 /\ Head(json) \in 48..57 /\ num < 100000
         THEN DecodeSizes(Tail(json), 10 * num + (Head(json) - 48), sizes)
    ELSE IF num >= 0 /\ Head(json) = 125
         THEN DecodeSizes(Tail(json), -1, Append(sizes, num))
    ELSE DecodeSizes(Tail(json), -1, sizes)

ReadSizes == DecodeSizes(ReadManifestJson, -1, <<>>)

RECURSIVE SumTo(_, _)
SumTo(sizes, n) == IF n = 0 THEN 0 ELSE sizes[n] + SumTo(sizes, n - 1)

\* the k-th slice of the payload, by the sizes read from the manifest
ReadSlice(k) == Take(Drop(ReadPayload, SumTo(ReadSizes, k - 1)), ReadSizes[k])

\* every entry's recorded size is the byte count of its local file when the
\* writer reached it (0 for an entry whose file did not exist)
SizesMatchAtWrite ==
    /\ Len(written) = Len(amanifest)
    /\ \A k \in 1..Len(amanifest) : amanifest[k].size = Len(written[k])

\* C10: for a manifest whose recorded sizes are the byte counts of the local
\* files at serialization time, the created container reads back: the magic,
\* then the manifest length, then a manifest that decodes to the recorded
\* sizes, and the payload cut by these sizes in manifest order gives each
\* entry's file bytes and is used up.
C10_ArchiveRoundTrip ==
    (apc = "done" /\ aret = "BIN created" /\ SizesMatchAtWrite) =>
        /\ ReadMagic = <<77, 79, 66, 73, 78, 48, 48, 49>>
        /\ Len(out) = 16 + ReadManifestLength + Len(ReadPayload)
        /\ ReadSizes = [k \in 1..Len(amanifest) |-> amanifest[k].size]
        /\ \A k \in 1..Len(amanifest) : ReadSlice(k) = written[k]
        /\ SumTo(ReadSizes, Len(ReadSizes)) = Len(ReadPayload)

C10_Witness ==
    /\ apc = "done"
    /\ aret = "BIN created"
    /\ SizesMatchAtWrite
    /\ Len(amanifest) = 2
    /\ Len(written[1]) = 12
    /\ written[2] = FileBytes
    /\ tampered = 0

RECURSIVE Concat(_)
Concat(seqs) == IF seqs = <<>> THEN <<>> ELSE Head(seqs) \o Concat(Tail(seqs))

IsPrefix(a, b) == Len(a) <= Len(b) /\ SubSeq(b, 1, Len(a)) = a

\* the rendered manifest and the 16 bytes in front of it, as the format
\* lays them out
RenderedLength == Len(EncodeManifest(amanifest))
ArchiveFailed == aret = "BIN creation failed"

\* C11: while archive_to_bin has met no error, and when it has returned
\* "BIN created", output_bin is: the 8 bytes MOBIN001, then 8 bytes that read
\* as the little-endian length of the rendered manifest, then exactly the
\* rendered manifest, then the bytes of the entries handled so far, in
\* manifest order with nothing between them; a pass over an entry whose
\* local path does not exist leaves output_bin as it is.
C11_ContainerLayout ==
    /\ []((apc \in {"entries", "done"} /\ ~ ArchiveFailed) =>
            /\ Len(out) >= 16 + RenderedLength
            /\ SubSeq(out, 1, 8) = <<77, 79, 66, 73, 78, 48, 48, 49>>
            /\ ReadLE(SubSeq(out, 9, 16)) = RenderedLength
            /\ SubSeq(out, 17, 16 + RenderedLength) = EncodeManifest(amanifest)
            /\ SubSeq(out, 17 + RenderedLength, Len(out)) = Concat(written)
            /\ Len(written) = aidx - 1
            /\ (apc = "done" => Len(written) = Len(amanifest)))
    /\ [][(/\ apc = "entries"
           /\ aidx <= Len(amanifest)
           /\ ~ Exists(afs, amanifest[aidx].local_path)
           /\ aidx' = aidx + 1) => out' = out]_vars

C11_Witness ==
    /\ apc = "done"
    /\ aret = "BIN created"
    /\ tampered = 0
    /\ Len(amanifest) = 2
    /\ LocalAt(afs, amanifest[1].local_path).kind = "absent"
    /\ LocalAt(afs, amanifest[2].local_path) = LocalFile(FileBytes)
    /\ Len(out) = 16 + RenderedLength + 2

HasDuplicate ==
    \E i, k \in 1..Len(amanifest) :
        i # k /\ amanifest[i].local_path = amanifest[k].local_path

\* C12: a manifest that names the same local path more than once is not
\* rejected for it (archive_to_bin fails on it only through an I/O error) and
\* not deduplicated: the rendered manifest of the created container holds one
\* entry per occurrence, the payload holds the file's bytes once per
\* occurrence, and when the recorded sizes are the sizes at serialization
\* time, cutting the payload by the recorded sizes gives every occurrence.
C12_DuplicatesKept ==
    (HasDuplicate /\ apc = "done") =>
        /\ ArchiveFailed =>
              /\ aerr \in {"PermissionError", "IsADirectoryError", "OSError"}
              /\ aerr = "IsADirectoryError" =>
                    LocalAt(afs, amanifest[aidx].local_path).kind = "dir"
        /\ ~ ArchiveFailed =>
              /\ Len(ReadSizes) = Len(amanifest)
              /\ \A k \in 1..Len(amanifest) : ReadSizes[k] = amanifest[k].size
              /\ Len(written) = Len(amanifest)
              /\ ReadPayload = Concat(written)
              /\ SizesMatchAtWrite =>
                    \A k \in 1..Len(amanifest) : ReadSlice(k) = written[k]

C12_Witness ==
    /\ apc = "done"
    /\ aret = "BIN created"
    /\ Len(amanifest) = 2
    /\ amanifest[1].local_path = amanifest[2].local_path
    /\ written = <<FileBytes, FileBytes>>
    /\ SizesMatchAtWrite
    /\ ReadSlice(1) = FileBytes
    /\ ReadSlice(2) = FileBytes

\* C13: an error met by archive_to_bin ends the call with the string
\* "BIN creation failed: ..." (the call returns, it does not raise); no entry
\* after the failing one is written; and the bytes written before the error
\* stay in output_bin: the step that fails only adds to it.
C13_FailureKeepsOutput ==
    /\ [](apc = "done" => aret \in {"BIN created", "BIN creation failed"})
    /\ [](ArchiveFailed =>
            /\ apc = "done"
            /\ aerr # None
            /\ Len(written) = aidx - 1
            /\ aerr = "PermissionError" => (out = <<>> /\ written = <<>>)
            /\ aerr # "PermissionError" =>
                  /\ aidx <= Len(amanifest)
                  /\ IsPrefix(MAGIC \o PackLE(RenderedLength, 8)
                                \o EncodeManifest(amanifest) \o Concat(written), out)
                  /\ Len(out) <= 16 + RenderedLength + Len(Concat(written))
                                   + Len(LocalAt(afs, amanifest[aidx].local_path).bytes))
    /\ [][(aret' = "BIN creation failed") => IsPrefix(out, out')]_vars

C13_Witness ==
    /\ ArchiveFailed
    /\ aerr = "OSError"
    /\ aidx = 2
    /\ Len(amanifest) = 2
    /\ written = <<FileBytes>>
    /\ Len(out) = 16 + RenderedLength + Len(FileBytes) + 6

\* C27: with output_bin writable and the local files as the extraction left
\* them, archive_to_bin returns its success string for every manifest of an
\* extraction, also for one with an entry whose local path is a directory (a
\* pulled sub-directory) or does not exist (a failed pull).
C27_ArchiveSucceeds ==
    (apc = "done" /\ tampered = 0 /\ aerr \notin {"PermissionError", "OSError"})
        => aret = "BIN created"

(***************************************************************************)
(* Properties of perform_full_extraction (checked under SpecFull)          *)
(***************************************************************************)
SourceOrder ==
    <<"/sdcard/DCIM", "/sdcard/Pictures", "/sdcard/Movies", "/sdcard/Music",
      "/sdcard/Download", "/sdcard/Documents", "/sdcard/WhatsApp",
      "/sdcard/Android/media", "sms-dump", "contacts-dump", "calls-dump",
      "adb-backup", "brute-scan", "local-scan">>

SourceSucceeded(k) == flog[k].outcome \in {"list", "written", "path"}
SourceFailed(k) == flog[k].outcome \in {"string", "exception", "written-query-failed"}

\* C14: the sources are attempted in the order eight public folders, SMS,
\* contacts, calls, backup, brute scan, local scan; a source that raised or
\* gave an error result is followed by the next source like one that
\* succeeded; the function returns only after the fourteenth, and what it
\* returns is the list of the entries the sources yielded, in that order,
\* holding every entry of every source that succeeded.
C14_AllSourcesAttempted ==
    /\ [](fpc # "idle" =>
            /\ Len(flog) <= 14
            /\ \A k \in 1..Len(flog) : flog[k].source = SourceOrder[k]
            /\ fmanifest = Concat([k \in 1..Len(flog) |-> flog[k].entries])
            /\ \A k \in 1..Len(flog) :
                  SourceSucceeded(k) =>
                      \A n \in 1..Len(flog[k].entries) :
                          \E i \in 1..Len(fmanifest) : fmanifest[i] = flog[k].entries[n]
            /\ fpc = "done" => (Len(flog) = 14 /\ fret = fmanifest))
    /\ [][(fpc = "run" /\ Len(flog) < 14)
            => (fpc' = "run" /\ fret' = None /\ Len(flog') = Len(flog) + 1)]_vars

C14_Witness ==
    /\ fpc = "done"
    /\ Len(flog) = 14
    /\ flog[1].outcome = "exception"
    /\ flog[10].outcome = "written-query-failed"
    /\ \A k \in 1..14 : k \notin {1, 10} => SourceSucceeded(k)
    /\ Len(fret) = 24

\* C15 as stated: when a public folder or a dump fails, the returned
\* manifest holds an entry that names the failed source.
C15_FailureRecorded ==
    \A k \in 1..Len(flog) :
        (k <= 11 /\ SourceFailed(k)) =>
            \E i \in 1..Len(fmanifest) : fmanifest[i].remote_path.root = flog[k].source

(***************************************************************************)
(* Properties of run_adb (checked under SpecRunAdb)                        *)
(***************************************************************************)
\* t is src without its leading and trailing whitespace
IsTrimOf(t, src) ==
    \E i \in 1..(Len(src) + 1) : \E j \in (i - 1)..Len(src) :
        /\ t = SubSeq(src, i, j)
        /\ \A k \in 1..(i - 1) : src[k] \in {" ", "\n", "\t", "\r"}
        /\ \A k \in (j + 1)..Len(src) : src[k] \in {" ", "\n", "\t", "\r"}
        /\ t # <<>> => (t[1] \notin {" ", "\n", "\t", "\r"}
                         /\ t[Len(t)] \notin {" ", "\n", "\t", "\r"})

\* the text the bytes raw stand for (an undecodable byte read as latin-1)
TextOf(raw) ==
    [k \in 1..Len(raw) |-> IF raw[k] = "0xFF" THEN "y-diaeresis" ELSE raw[k]]

HasVisible(raw) == \E k \in 1..Len(raw) : raw[k] \notin {" ", "\n", "\t", "\r"}

\* C19: every call of run_adb returns a text and starts an external process
\* once: "adb command timed out." after a timeout, "adb not found." when the
\* binary is missing, "adb error: " followed by the exception's text after
\* any other exception, and after a completed process its standard output
\* without surrounding whitespace if that is not empty, else its standard
\* error without surrounding whitespace.
C19_RunAdbReturnsString ==
    /\ spawned <= 1
    /\ rret.returned <=> rpc = "done"
    /\ rpc = "done" =>
          /\ spawned = 1
          /\ rproc.kind = "TimeoutExpired" => rret.text = <<"a", "d", "b", " ", "c", "o", "m", "m", "a", "n", "d", " ", "t", "i", "m", "e", "d", " ", "o", "u", "t", ".">>
          /\ rproc.kind = "FileNotFoundError" => rret.text = <<"a", "d", "b", " ", "n", "o", "t", " ", "f", "o", "u", "n", "d", ".">>
          /\ rproc.kind = "Exception" => rret.text = <<"a", "d", "b", " ", "e", "r", "r", "o", "r", ":", " ">> \o rproc.text
          /\ rproc.kind = "completed" =>
                IsTrimOf(rret.text, TextOf(IF HasVisible(rproc.stdout)
                                           THEN rproc.stdout ELSE rproc.stderr))

C19_Witness ==
    /\ rpc = "done"
    /\ rproc.kind = "completed"
    /\ rproc.stdout = <<" ", "\n">>
    /\ rproc.stderr = <<"\n", "e", "r", "r", "o", "r", ":", " ", "d", "e", "v", "i", "c", "e", " ", "o", "f", "f", "l", "i", "n", "e", "\n">>
    /\ rret.text = <<"e", "r", "r", "o", "r", ":", " ", "d", "e", "v", "i", "c", "e", " ", "o", "f", "f", "l", "i", "n", "e">>
    /\ spawned = 1

(***************************************************************************)
(* Properties of the worker threads (checked under SpecGui)                *)
(***************************************************************************)
\* C20 as stated: whatever operations the user starts, at most one adb
\* command is in flight at any moment.
C20_OneCommandInFlight == Cardinality(inflight) <= 1

\* C30: self._last_manifest changes only in the finished slot of an
\* extraction Worker that delivered a list, and then to that list (a Worker
\* whose function raised delivers a string); a Worker emits finished once,
\* when its function is over, and its slot removes it from self.workers; and
\* the manifest handed to archive_to_bin by 'create BIN from last' is the
\* one that was stored when the button was pressed.
C30_ManifestOnlyFromList ==
    [][last_manifest' # last_manifest =>
         \E w \in WorkerIds :
            /\ wstate[w].st = "emitted" /\ wstate'[w].st = "removed"
            /\ wstate[w].cb
            /\ wstate[w].res.kind = "list"
            /\ last_manifest' = Stored(wstate[w].res.entries)]_vars
C30_EmitsOnceThenRemoved ==
    \A w \in WorkerIds :
        /\ wstate[w].emits <= 1
        /\ wstate[w].st \in {"emitted", "removed"} <=> wstate[w].emits = 1
        /\ wstate[w].res.kind \in {"pending", "list", "str"}
        /\ wstate[w].st \in {"starting", "running", "blocked", "emitted"}
              <=> \E k \in 1..Len(gworkers) : gworkers[k] = w
C30_ArchivesRequestedManifest ==
    \A w \in WorkerIds :
        (wstate[w].fn = "archive_to_bin"
            /\ wstate[w].st \in {"running", "emitted", "removed"})
          => wstate[w].arg = wstate[w].req
C30_LastManifest ==
    /\ C30_ManifestOnlyFromList
    /\ [](C30_EmitsOnceThenRemoved /\ C30_ArchivesRequestedManifest)

(***************************************************************************)
(* Properties of the session log (checked under SpecSession)               *)
(***************************************************************************)
\* the ids of a log are those of strictly increasing numbers
StrictlyIncreasing(log) ==
    \A i, k \in 1..Len(log) :
        i < k => \E a, b \in 0..(2 + MaxLogCalls) :
                    /\ a < b
                    /\ log[i].operation_id = OperationId(a)
                    /\ log[k].operation_id = OperationId(b)

\* C29: the operation ids of a session's operations_log are unique and
\* strictly increasing; when a log_operation call completes, the counter
\* equals the length of operations_log; and log_operation without an active
\* session changes nothing.  This for any order of start_session (new or
\* resumed) and log_operation calls, also calls that overlap on two threads.
C29_IdsIncreasing ==
    /\ StrictlyIncreasing(current_session.log)
    /\ \A d \in Serials : StrictlyIncreasing(sdisk[d].log)
C29_CounterIsLength ==
    [][(\E t \in LogThreads : lthreads[t].pc = "entry" /\ lthreads'[t].pc = "outside")
          => operation_counter' = Len(current_session'.log)]_vars
C29_NoSessionNoChange ==
    [][(~ current_session.active /\ slogged' # slogged)
          => UNCHANGED <<sdisk, current_session, operation_counter>>]_vars
C29_OperationIds ==
    /\ []C29_IdsIncreasing
    /\ C29_CounterIsLength
    /\ C29_NoSessionNoChange

(***************************************************************************)
(* Properties of epoch_ms_to_str (checked under SpecEpoch).  They are      *)
(* stated on how the argument was built, not on what int() made of it.     *)
(***************************************************************************)
\* the argument is an integer literal above 10**12
AboveTenTo12 ==
    /\ einput.literal /\ ~ einput.neg
    /\ einput.numeral \in MillisNumerals \cup MillisTooLate
\* the argument as str() shows it
RawText == IF einput.type = "None" THEN <<"N", "o", "n", "e">> ELSE einput.text
\* the integer of the argument as str() shows it
IntegerText == IF einput.neg THEN <<"-">> \o einput.numeral ELSE einput.numeral

\* the units: the call returns a string; a time is
\* shown only for an integer literal, read as milliseconds above 10**12 and
\* as seconds otherwise (10**12 itself included); an instant datetime can
\* show is shown; the record keeps the captured string in date_epoch_ms.
EpochUnits ==
    /\ epc \in {"returned", "done"} /\ erecord.state # "built" => eret.kind \in {"date", "text"}
    /\ eret.kind = "date" =>
          /\ einput.literal
          /\ eret.neg = einput.neg
          /\ IF AboveTenTo12
             THEN /\ eret.unit = "ms"
                  /\ Len(einput.numeral) > 3
                  /\ eret.value \o SubSeq(einput.numeral, Len(einput.numeral) - 2,
                                          Len(einput.numeral)) = einput.numeral
             ELSE /\ eret.unit = "s"
                  /\ eret.value = einput.numeral
    /\ (eret.kind = "text" /\ einput.literal /\ ~ einput.neg) =>
          einput.numeral \in SecondsTooLate \cup MillisTooLate
    /\ erecord.state = "built" =>
          /\ erecord.date_epoch_ms = einput.text
          /\ einput.text # <<>> => erecord.date = eret

\* C24: epoch_ms_to_str returns a string for every argument: an integer
\* literal above 10**12 is read as milliseconds, any other (10**12 included)
\* as seconds, and whenever no time can be shown the string returned is the
\* argument as it was passed; the record keeps the captured string in
\* date_epoch_ms.
C24_FallbackIsRawValue ==
    /\ EpochUnits
    /\ eret.kind = "text" => eret.value = RawText

\* What holds in place of the fallback of C24: an argument that is no integer
\* literal comes back as it was passed; an integer whose instant datetime
\* cannot show comes back as the decimal numeral of the integer (the
\* argument without its blanks and leading zeros).
EpochFallback ==
    /\ EpochUnits
    /\ eret.kind = "text" =>
          eret.value = IF einput.literal THEN IntegerText ELSE RawText

(***************************************************************************)
(* Specifications                                                          *)
(***************************************************************************)
InitQuery == QueryInit /\ ExtractIdle /\ ArchiveIdle /\ FullIdle /\ RunAdbIdle /\ GuiIdle
    /\ SessionIdle /\ ParseIdle /\ EpochIdle
NextQuery == QueryAttempt \/ QueryExhausted
SpecQuery == InitQuery /\ [][NextQuery]_vars

InitExtract == QueryIdle /\ ExtractInit /\ ArchiveIdle /\ FullIdle /\ RunAdbIdle /\ GuiIdle
    /\ SessionIdle /\ ParseIdle /\ EpochIdle
NextExtract == ExtractNext
SpecExtract == InitExtract /\ [][NextExtract]_vars

InitArchive == QueryIdle /\ ExtractIdle /\ ArchiveInit /\ FullIdle /\ RunAdbIdle /\ GuiIdle
    /\ SessionIdle /\ ParseIdle /\ EpochIdle
NextArchive == ArchiveNext
SpecArchive == InitArchive /\ [][NextArchive]_vars

InitFull == QueryIdle /\ ExtractIdle /\ ArchiveIdle /\ FullInit /\ RunAdbIdle /\ GuiIdle
    /\ SessionIdle /\ ParseIdle /\ EpochIdle
NextFull == FullNext
SpecFull == InitFull /\ [][NextFull]_vars

InitRunAdb == QueryIdle /\ ExtractIdle /\ ArchiveIdle /\ FullIdle /\ RunAdbInit /\ GuiIdle
    /\ SessionIdle /\ ParseIdle /\ EpochIdle
NextRunAdb == RunAdbNext
SpecRunAdb == InitRunAdb /\ [][NextRunAdb]_vars

InitSession == QueryIdle /\ ExtractIdle /\ ArchiveIdle /\ FullIdle /\ RunAdbIdle /\ GuiIdle
    /\ SessionInit /\ ParseIdle /\ EpochIdle
NextSession == SessionNext
SpecSession == InitSession /\ [][NextSession]_vars

InitEpoch == QueryIdle /\ ExtractIdle /\ ArchiveIdle /\ FullIdle /\ RunAdbIdle /\ GuiIdle
    /\ SessionIdle /\ ParseIdle /\ EpochInit
NextEpoch == EpochNext
SpecEpoch == InitEpoch /\ [][NextEpoch]_vars

InitParse == QueryIdle /\ ExtractIdle /\ ArchiveIdle /\ FullIdle /\ RunAdbIdle /\ GuiIdle
    /\ SessionIdle /\ ParseInit /\ EpochIdle
NextParse == ParseNext
SpecParse == InitParse /\ [][NextParse]_vars

InitGui == QueryIdle /\ ExtractIdle /\ ArchiveIdle /\ FullIdle /\ RunAdbIdle /\ GuiInit
    /\ SessionIdle /\ ParseIdle /\ EpochIdle
NextGui == GuiNext
SpecGui == InitGui /\ [][NextGui]_vars

====
